---- MODULE Spec2Model ----
(***************************************************************************)
(* Model of the candidate preselection and rescoring pipeline of ms2query  *)
(* (src/ms2query/ms2library.py).                                           *)
(*                                                                         *)
(* Numbers.  Similarity scores, tanimoto scores and parent masses are      *)
(* integers counting a fixed unit; every quotient the code computes is     *)
(* kept as an exact fraction <<numerator, denominator>> in lowest terms.   *)
(* NaN is the value numpy gives for 0.0 / 0.0.                             *)
(*                                                                         *)
(* Python values.  A dict is a function on its key set; a call returns a   *)
(* record [status, value] whose status is "ok" or the name of the          *)
(* exception that left the call.                                           *)
(***************************************************************************)
EXTENDS Integers, Sequences, FiniteSets, TLC

VARIABLES
    agg,                  \* the aggregator functions called on their own
    sqlite_file,          \* structure index and parent masses of the library
    ms2ds_embeddings,     \* rows <<spectrum id, vector>> of the ms2ds store
    s2v_embeddings,       \* spectrum id -> vector of the s2v store
    settings,             \* MS2Library.settings
    argsort_kind,         \* how the installed quicksort orders equal keys
    files,                \* file name -> content of the files that exist
    objects,              \* the objects constructed so far, in order
    call                  \* the last call of a library method and its result

vars == <<agg, sqlite_file, ms2ds_embeddings, s2v_embeddings, settings,
          argsort_kind, files, objects, call>>

library == <<sqlite_file, ms2ds_embeddings, s2v_embeddings, settings, argsort_kind>>

file_system == <<files, objects>>

(***************************************************************************)
(* Bounds of the model and the universes the inputs are drawn from.        *)
(***************************************************************************)
MaxScore == 2
MaxTanimoto == 2
MaxNeighbours == 2
MaxLibrary == 2
MaxPeaks == 1
MaxBatch == 2
MaxCutOff == 2
MaxQueryMass == 2

\* Library spectrum ids and structure ids (inchikey14), in lexicographic order.
SpectrumIdOrder == <<"s1", "s2", "s3">>
InchikeyOrder == <<"A", "B">>

SpectrumIds == {SpectrumIdOrder[i] : i \in DOMAIN SpectrumIdOrder}
Inchikeys == {InchikeyOrder[i] : i \in DOMAIN InchikeyOrder}
QueryIds == {"q1", "q2"}

\* The position of a library spectrum id in lexicographic order.
Rank(spectrum_id) == CHOOSE i \in DOMAIN SpectrumIdOrder : SpectrumIdOrder[i] = spectrum_id

Abs(x) == IF x < 0 THEN -x ELSE x

RECURSIVE Power(_, _)
Power(b, e) == IF e = 0 THEN 1 ELSE b * Power(b, e - 1)

(***************************************************************************)
(* Exact fractions.                                                        *)
(***************************************************************************)
RECURSIVE GCD(_, _)
GCD(a, b) == IF b = 0 THEN a ELSE GCD(b, a % b)

NaN == <<0, 0>>

Frac(n, d) ==
    IF d = 0 THEN NaN
    ELSE LET g == GCD(n, d) IN <<n \div g, d \div g>>

IsNaN(a) == a[2] = 0

FracAdd(a, b) ==
    IF IsNaN(a) \/ IsNaN(b) THEN NaN
    ELSE Frac(a[1] * b[2] + b[1] * a[2], a[2] * b[2])

FracMul(a, b) ==
    IF IsNaN(a) \/ IsNaN(b) THEN NaN
    ELSE Frac(a[1] * b[1], a[2] * b[2])

\* numpy division: x / 0.0 with x = 0.0 is nan (a RuntimeWarning, no exception).
FracDiv(a, b) ==
    IF IsNaN(a) \/ IsNaN(b) THEN NaN
    ELSE Frac(a[1] * b[2], a[2] * b[1])

\* a < b; every comparison with NaN is false.
FracLess(a, b) == ~IsNaN(a) /\ ~IsNaN(b) /\ a[1] * b[2] < b[1] * a[2]

\* a = b as numbers; NaN equals nothing.
FracEq(a, b) == ~IsNaN(a) /\ ~IsNaN(b) /\ a[1] * b[2] = b[1] * a[2]

(***************************************************************************)
(* Python call results.                                                    *)
(***************************************************************************)
Ok(v) == [status |-> "ok", value |-> v]
Raise(e) == [status |-> e, value |-> <<>>]

\* The members of S in the order of the sequence order.
RECURSIVE InOrder(_, _)
InOrder(order, S) ==
    IF order = <<>> THEN <<>>
    ELSE IF Head(order) \in S
         THEN <<Head(order)>> \o InOrder(Tail(order), S)
         ELSE InOrder(Tail(order), S)

(***************************************************************************)
(* get_average_ms2ds_for_inchikey14                                        *)
(***************************************************************************)
\* The inner loop: sum_of_ms2ds_scores += ms2ds_scores.loc[spectrum_id]
RECURSIVE sum_of_ms2ds_scores(_, _)
sum_of_ms2ds_scores(ms2ds_scores, spectrum_ids) ==
    IF spectrum_ids = {} THEN 0
    ELSE LET spectrum_id == CHOOSE s \in spectrum_ids : TRUE
         IN ms2ds_scores[spectrum_id]
            + sum_of_ms2ds_scores(ms2ds_scores, spectrum_ids \ {spectrum_id})

\* Faulty variant: one spectrum too many is counted.
avg_ms2ds_score_one_more(sum, nr_of_spectra) == Frac(sum, nr_of_spectra + 1)

avg_ms2ds_score(sum, nr_of_spectra) == Frac(sum, nr_of_spectra)

\* Faulty variant: the structures without spectra get an entry too.
inchikeys_kept_unguarded(spectra_belonging_to_inchikey14s) ==
    DOMAIN spectra_belonging_to_inchikey14s

\* if nr_of_spectra > 0: only these structures get an entry
inchikeys_kept(spectra_belonging_to_inchikey14s) ==
    {inchikey14 \in DOMAIN spectra_belonging_to_inchikey14s :
        Cardinality(spectra_belonging_to_inchikey14s[inchikey14]) > 0}

get_average_ms2ds_for_inchikey14(ms2ds_scores, spectra_belonging_to_inchikey14s) ==
    IF \E inchikey14 \in DOMAIN spectra_belonging_to_inchikey14s :
          \E spectrum_id \in spectra_belonging_to_inchikey14s[inchikey14] :
              spectrum_id \notin DOMAIN ms2ds_scores
    THEN Raise("KeyError")
    ELSE Ok([inchikey14 \in inchikeys_kept(spectra_belonging_to_inchikey14s) |->
                LET members == spectra_belonging_to_inchikey14s[inchikey14]
                    nr_of_spectra == Cardinality(members)
                IN <<avg_ms2ds_score(sum_of_ms2ds_scores(ms2ds_scores, members),
                                     nr_of_spectra),
                     nr_of_spectra>>])

(***************************************************************************)
(* get_closely_related_scores                                              *)
(***************************************************************************)
\* The loop over the neighbours of one structure: the running
\* <<sum_related_inchikey_tanimoto_scores, total_weight_of_spectra_used,
\*   total_nr_of_spectra_used>> after the first n neighbours.
RECURSIVE related_totals(_, _, _)
related_totals(best_matches_and_tanimoto_scores, average_inchikey_scores, n) ==
    IF n = 0 THEN <<Frac(0, 1), 0, 0>>
    ELSE LET before == related_totals(best_matches_and_tanimoto_scores,
                                      average_inchikey_scores, n - 1)
             closely_related_inchikey14 == best_matches_and_tanimoto_scores[n][1]
             tanimoto_score == best_matches_and_tanimoto_scores[n][2]
             closely_related_ms2ds ==
                 average_inchikey_scores[closely_related_inchikey14][1]
             nr_of_spectra_related_inchikey14 ==
                 average_inchikey_scores[closely_related_inchikey14][2]
             weight_of_closely_related_inchikey_score ==
                 nr_of_spectra_related_inchikey14 * tanimoto_score
         IN <<FracAdd(before[1],
                      FracMul(closely_related_ms2ds,
                              Frac(weight_of_closely_related_inchikey_score, 1))),
              before[2] + weight_of_closely_related_inchikey_score,
              before[3] + nr_of_spectra_related_inchikey14>>

\* Faulty variant: the neighbours are weighted by their member count alone.
related_scores_unweighted(totals) ==
    <<FracDiv(totals[1], Frac(totals[2], 1)), totals[3], Frac(totals[3], totals[3])>>

\* Faulty variant: the weighted sum is divided by the number of spectra
\* instead of the total weight.
related_scores_per_spectrum(totals) ==
    <<FracDiv(totals[1], Frac(totals[3], 1)), totals[3], Frac(totals[2], totals[3])>>

\* The triple stored for one structure (lines 469-476).
related_scores(totals) ==
    <<FracDiv(totals[1], Frac(totals[2], 1)), totals[3], Frac(totals[2], totals[3])>>

\* Faulty variant: a structure that is missing from the neighbour table gets
\* the scores of a structure without neighbours instead of an error.
related_inchikey_score_with_default(inchikey, closest_related_inchikey14s, average_inchikey_scores) ==
    Ok(<<Frac(0, 1), 0, Frac(0, 1)>>)

\* One pass of the outer loop: the call result for one selected structure.
related_inchikey_score(inchikey, closest_related_inchikey14s, average_inchikey_scores) ==
    IF inchikey \notin DOMAIN closest_related_inchikey14s
    THEN Raise("KeyError")
    ELSE LET best_matches_and_tanimoto_scores ==
                 closest_related_inchikey14s[inchikey]
             totals == related_totals(best_matches_and_tanimoto_scores,
                                      average_inchikey_scores,
                                      Len(best_matches_and_tanimoto_scores))
         IN IF \E i \in DOMAIN best_matches_and_tanimoto_scores :
                   best_matches_and_tanimoto_scores[i][1]
                       \notin DOMAIN average_inchikey_scores
            THEN Raise("KeyError")
            ELSE IF totals[3] = 0
                 THEN Raise("ZeroDivisionError")
                 ELSE Ok(related_scores(totals))

\* The first exception raised while the selected structures are visited in
\* order, or "ok".
RECURSIVE first_failure(_, _, _)
first_failure(order, closest_related_inchikey14s, average_inchikey_scores) ==
    IF order = <<>> THEN "ok"
    ELSE LET one == related_inchikey_score(Head(order),
                                           closest_related_inchikey14s,
                                           average_inchikey_scores)
         IN IF one.status # "ok" THEN one.status
            ELSE first_failure(Tail(order), closest_related_inchikey14s,
                               average_inchikey_scores)

get_closely_related_scores(selected_inchikey14s, closest_related_inchikey14s, average_inchikey_scores) ==
    LET failure == first_failure(InOrder(InchikeyOrder, selected_inchikey14s),
                                 closest_related_inchikey14s,
                                 average_inchikey_scores)
    IN IF failure # "ok" THEN Raise(failure)
       ELSE Ok([inchikey \in selected_inchikey14s |->
                   related_inchikey_score(inchikey, closest_related_inchikey14s,
                                          average_inchikey_scores).value])

\* How Python orders the (average score, number of spectra) tuples that
\* are the values of the dict of averages: item by item.
tuple_less(a, b) == FracLess(a[1], b[1]) \/ (FracEq(a[1], b[1]) /\ a[2] < b[2])

\* heapq.nlargest(n, iterable, key=key.get): sorted(iterable, key=key.get,
\* reverse=True)[:n], in which equal keys stay in the order of the iterable.
heapq_nlargest(n, iterable, key) ==
    LET before(j, i) == \/ tuple_less(key[iterable[i]], key[iterable[j]])
                        \/ /\ ~tuple_less(key[iterable[j]], key[iterable[i]])
                           /\ j < i
        position(i) == 1 + Cardinality({j \in DOMAIN iterable : before(j, i)})
        sorted == [p \in DOMAIN iterable |->
                      iterable[CHOOSE i \in DOMAIN iterable : position(i) = p]]
    IN SubSeq(sorted, 1, IF n < 0 THEN 0
                         ELSE IF n < Len(iterable) THEN n ELSE Len(iterable))

\* top_spectrum_ids after the first n passes of the loop:
\* top_spectrum_ids += spectra_belonging_to_inchikey[inchikey]
RECURSIVE top_spectrum_ids(_, _, _)
top_spectrum_ids(top_inchikeys, spectra_belonging_to_inchikey, n) ==
    IF n = 0 THEN <<>>
    ELSE top_spectrum_ids(top_inchikeys, spectra_belonging_to_inchikey, n - 1)
         \o InOrder(SpectrumIdOrder, spectra_belonging_to_inchikey[top_inchikeys[n]])

\* top_inchikeys_with_scores and top_spectrum_ids of the structures
\* top_inchikeys.
with_scores_and_spectrum_ids(top_inchikeys, average_ms2ds_scores_per_inchikey14, spectra_belonging_to_inchikey) ==
    <<[inchikey \in {top_inchikeys[i] : i \in DOMAIN top_inchikeys} |->
          average_ms2ds_scores_per_inchikey14[inchikey]],
      top_spectrum_ids(top_inchikeys, spectra_belonging_to_inchikey,
                       Len(top_inchikeys))>>

\* preselect_best_matching_inchikeys, the dict of averages listing the
\* structures in the order of InchikeyOrder.
preselect_best_matching_inchikeys(average_ms2ds_scores_per_inchikey14, spectra_belonging_to_inchikey, top_nr_of_inchikeys) ==
    with_scores_and_spectrum_ids(
        heapq_nlargest(top_nr_of_inchikeys,
                       InOrder(InchikeyOrder,
                               DOMAIN average_ms2ds_scores_per_inchikey14),
                       average_ms2ds_scores_per_inchikey14),
        average_ms2ds_scores_per_inchikey14,
        spectra_belonging_to_inchikey)

(***************************************************************************)
(* The neighbourhood aggregator on its own: the two functions applied to   *)
(* arguments drawn from bounded sets, the second to the result of the      *)
(* first as calculate_averages_and_preselection does.                      *)
(***************************************************************************)
\* Every way to give each spectrum at most one structure id.
Memberships ==
    {belonging \in [Inchikeys -> SUBSET SpectrumIds] :
        \A k1, k2 \in Inchikeys :
            k1 # k2 => belonging[k1] \cap belonging[k2] = {}}

\* Neighbour lists: at most MaxNeighbours distinct structures, sorted by
\* descending tanimoto score.
NeighbourLists ==
    {nbs \in UNION {[1..n -> Inchikeys \X (0..MaxTanimoto)] : n \in 0..MaxNeighbours} :
        /\ \A i, j \in DOMAIN nbs : i # j => nbs[i][1] # nbs[j][1]
        /\ \A i, j \in DOMAIN nbs : i < j => nbs[i][2] >= nbs[j][2]}

NoCall == [op |-> "none"]

\* No library is loaded while the aggregator functions are called on their own.
NoLibrary ==
    /\ sqlite_file = <<>>
    /\ ms2ds_embeddings = <<>>
    /\ s2v_embeddings = <<>>
    /\ settings = <<>>
    /\ argsort_kind = "stable"
    /\ call = NoCall

\* No file has been written and no object constructed.
NoFiles ==
    /\ files = <<>>
    /\ objects = <<>>

AggInit ==
    /\ NoFiles
    /\ NoLibrary
    /\ \E scores \in [SpectrumIds -> 0..MaxScore], belonging \in Memberships :
          agg = [op |-> "args",
                 ms2ds_scores |-> scores,
                 spectra_belonging_to_inchikey14s |-> belonging]

GetAverageMs2dsForInchikey14 ==
    /\ UNCHANGED <<file_system, library, call>>
    /\ agg.op = "args"
    /\ agg' = [op |-> "get_average_ms2ds_for_inchikey14",
               ms2ds_scores |-> agg.ms2ds_scores,
               spectra_belonging_to_inchikey14s |->
                   agg.spectra_belonging_to_inchikey14s,
               ret |-> get_average_ms2ds_for_inchikey14(
                           agg.ms2ds_scores,
                           agg.spectra_belonging_to_inchikey14s)]

GetCloselyRelatedScores ==
    /\ UNCHANGED <<file_system, library, call>>
    /\ agg.op = "get_average_ms2ds_for_inchikey14"
    /\ agg.ret.status = "ok"
    /\ \E closest \in [Inchikeys -> NeighbourLists] :
          agg' = [op |-> "get_closely_related_scores",
                  ms2ds_scores |-> agg.ms2ds_scores,
                  spectra_belonging_to_inchikey14s |->
                      agg.spectra_belonging_to_inchikey14s,
                  selected_inchikey14s |-> DOMAIN agg.ret.value,
                  closest_related_inchikey14s |-> closest,
                  average_inchikey_scores |-> agg.ret.value,
                  ret |-> get_closely_related_scores(DOMAIN agg.ret.value,
                                                     closest, agg.ret.value)]

\* calculate_averages_and_preselection with sort_on_average_ms2ds=True, up
\* to the preselection: preselect_best_matching_inchikeys on the averages.
PreselectBestMatchingInchikeys ==
    /\ UNCHANGED <<file_system, library, call>>
    /\ agg.op = "get_average_ms2ds_for_inchikey14"
    /\ agg.ret.status = "ok"
    /\ \E top_nr_of_inchikeys \in 1..MaxCutOff :
          agg' = [op |-> "preselect_best_matching_inchikeys",
                  ms2ds_scores |-> agg.ms2ds_scores,
                  spectra_belonging_to_inchikey14s |->
                      agg.spectra_belonging_to_inchikey14s,
                  average_ms2ds_scores_per_inchikey14 |-> agg.ret.value,
                  top_nr_of_inchikeys |-> top_nr_of_inchikeys,
                  ret |-> preselect_best_matching_inchikeys(
                              agg.ret.value,
                              agg.spectra_belonging_to_inchikey14s,
                              top_nr_of_inchikeys)]

AggNext ==
    \/ GetAverageMs2dsForInchikey14
    \/ GetCloselyRelatedScores
    \/ PreselectBestMatchingInchikeys

SpecAggregator == AggInit /\ [][AggNext]_vars

(***************************************************************************)
(* MS2Library: the library state.                                          *)
(*                                                                         *)
(* A spectrum is known to the model by its peaks, a number standing for    *)
(* its peak pattern; the two embedding models and the cosine similarity    *)
(* of their vectors (ms2deepscore, spec2vec) are functions of it.          *)
(***************************************************************************)
NoInchikey == "none"

\* MS2DeepScore.calculate_vectors / the stored ms2ds vector of a spectrum.
ms2ds_vector(peaks) == peaks

\* calc_vector / the stored s2v vector of a spectrum.
s2v_vector(peaks) == peaks

\* cosine_similarity_matrix on two ms2ds vectors, as a whole number of
\* score steps: the closer the patterns, the higher.
ms2ds_cosine_similarity(vector_1, vector_2) == MaxPeaks - Abs(vector_1 - vector_2)

\* cosine_similarity_matrix on two s2v vectors, as a whole number of score
\* steps: the highest for equal patterns.
s2v_cosine_similarity(vector_1, vector_2) == IF vector_1 = vector_2 THEN MaxPeaks ELSE 0

\* The first n library spectrum ids, ascending and descending.
RECURSIVE Reverse(_)
Reverse(seq) == IF seq = <<>> THEN <<>> ELSE Reverse(Tail(seq)) \o <<Head(seq)>>

StoreOrders(n) == {SubSeq(SpectrumIdOrder, 1, n), Reverse(SubSeq(SpectrumIdOrder, 1, n))}

\* Structure ids are names: the first annotated library spectrum is the one
\* of the first structure.
first_is_first_inchikey(inchikey14) ==
    \A i \in DOMAIN inchikey14 :
        (\A j \in 1..(i - 1) : inchikey14[j] = NoInchikey)
            => inchikey14[i] \in {NoInchikey, InchikeyOrder[1]}

\* Peak patterns are names, and both similarities see only how far two of
\* them are apart: the first library spectrum has the first pattern.
first_is_first_peaks(peaks) == \A i \in DOMAIN peaks : i = 1 => peaks[i] = 0

\* The library spectra the three library files were made from: annotated
\* with a structure id or not, in the row order of the ms2ds store.
LibrarySpectra ==
    UNION {{[i \in 1..n |-> [spectrumid |-> ids[i],
                            peaks |-> peaks[i],
                            inchikey14 |-> inchikey14[i],
                            parent_mass |-> Rank(ids[i])]] :
               ids \in StoreOrders(n),
               peaks \in {f \in [1..n -> 0..MaxPeaks] : first_is_first_peaks(f)},
               inchikey14 \in {f \in [1..n -> Inchikeys \cup {NoInchikey}] :
                                   first_is_first_inchikey(f)}} :
           n \in 0..(IF MaxLibrary < Len(SpectrumIdOrder)
                     THEN MaxLibrary ELSE Len(SpectrumIdOrder))}

\* The other structure id of the two.
OtherInchikey(inchikey) == CHOOSE k \in Inchikeys : k # inchikey

\* The table of nearest neighbours: for every structure the first k of itself
\* (when the table lists a structure among its own neighbours) and the other
\* structure, by descending tanimoto score.
NeighbourTables ==
    {[inchikey \in Inchikeys |->
         LET neighbours ==
                 (IF include_self THEN <<<<inchikey, MaxTanimoto>>>> ELSE <<>>)
                     \o <<<<OtherInchikey(inchikey), tanimoto>>>>
         IN SubSeq(neighbours, 1, IF k < Len(neighbours) THEN k ELSE Len(neighbours))] :
        k \in 0..MaxNeighbours, include_self \in BOOLEAN, tanimoto \in {0, MaxTanimoto}}

\* _set_settings: the defaults, and base_nr_mass_similarity overridden.
default_settings ==
    [spectrum_id_column_name |-> "spectrumid",
     cosine_score_tolerance |-> <<1, 10>>,
     base_nr_mass_similarity |-> <<4, 5>>,
     progress_bars |-> TRUE]

SettingsChoices ==
    {default_settings, [default_settings EXCEPT !.base_nr_mass_similarity = <<1, 2>>]}

\* How numpy's quicksort leaves equal keys: in their input order (it does for
\* short arrays) or not (here: reversed). A property of the installation.
ArgsortKinds == {"stable", "reversed"}

LibraryInit(tables) ==
    /\ agg = NoCall
    /\ call = NoCall
    /\ NoFiles
    /\ settings \in SettingsChoices
    /\ argsort_kind \in ArgsortKinds
    /\ \E spectra \in LibrarySpectra, closely_related \in tables :
          /\ ms2ds_embeddings =
                 [i \in DOMAIN spectra |->
                     <<spectra[i].spectrumid, ms2ds_vector(spectra[i].peaks)>>]
          /\ s2v_embeddings =
                 [spectrum_id \in {spectra[i].spectrumid : i \in DOMAIN spectra} |->
                     LET i == CHOOSE j \in DOMAIN spectra :
                                  spectra[j].spectrumid = spectrum_id
                     IN s2v_vector(spectra[i].peaks)]
          /\ sqlite_file =
                 [spectra_belonging_to_inchikey14s |->
                      [inchikey \in Inchikeys |->
                          {spectra[i].spectrumid : i \in
                              {j \in DOMAIN spectra : spectra[j].inchikey14 = inchikey}}],
                  closely_related_inchikey14s |-> closely_related,
                  parent_mass |->
                      [spectrum_id \in {spectra[i].spectrumid : i \in DOMAIN spectra} |->
                          LET i == CHOOSE j \in DOMAIN spectra :
                                       spectra[j].spectrumid = spectrum_id
                          IN spectra[i].parent_mass]]

Init == LibraryInit(NeighbourTables)

\* Neighbour tables that list only the first structure: the structure index
\* was made from tanimoto scores that do not cover every structure.
UnlistedNeighbourTables ==
    {[inchikey \in {InchikeyOrder[1]} |-> table[inchikey]] : table \in NeighbourTables}

UnlistedInit == LibraryInit(UnlistedNeighbourTables)

(***************************************************************************)
(* pandas: sort_values, nlargest.                                          *)
(***************************************************************************)
\* The positions 1..n in the order of the strict total order before, given
\* as the function <<j, i>> |-> j comes before i.
SortedBy(n, before) ==
    [r \in 1..n |-> CHOOSE i \in 1..n : Cardinality({j \in 1..n : before[j, i]}) = r - 1]

\* Series.sort_values(ascending=False) on integer keys, with the argsort kind.
descending_positions(keys, kind) ==
    LET before == [j \in DOMAIN keys, i \in DOMAIN keys |->
                      \/ keys[j] > keys[i]
                      \/ keys[j] = keys[i] /\ (IF kind = "stable" THEN j < i ELSE j > i)]
    IN SortedBy(Len(keys), before)

\* Faulty variant: the order of equal keys changes from one call to the next.
argsort_kind_changing_between_calls ==
    IF call = NoCall THEN argsort_kind ELSE "reversed"

\* The order the installed quicksort leaves equal keys in: the same in
\* every call.
argsort_kind_of_call == argsort_kind

\* The rows of a series in the order of the positions given.
rows_in_order(series, order) == [r \in DOMAIN series |-> series[order[r]]]

\* The scores of the rows of a series.
scores_of(series) == [i \in DOMAIN series |-> series[i][2]]

\* Series.head(n) for n >= 0.
head(series, n) == SubSeq(series, 1, IF n < Len(series) THEN n ELSE Len(series))

\* Faulty variant: the cut-off is ignored.
nlargest_without_cut_off(series, n) ==
    rows_in_order(series, descending_positions(scores_of(series), argsort_kind_of_call))

\* Series.nlargest(n) on the series of rows <<label, score>>: nothing for
\* n <= 0, the whole series sorted for n >= len, else the n largest with
\* equal scores in row order (keep="first").
nlargest(series, n) ==
    IF n <= 0 THEN <<>>
    ELSE head(rows_in_order(series,
                            descending_positions(
                                scores_of(series),
                                IF n >= Len(series) THEN argsort_kind_of_call
                                ELSE "stable")),
              n)

\* list(series.index)
index_of(series) == [i \in DOMAIN series |-> series[i][1]]

\* The series as a mapping label -> value, for .loc[label].
loc(series) ==
    [label \in {series[i][1] : i \in DOMAIN series} |->
        series[CHOOSE i \in DOMAIN series : series[i][1] = label][2]]

(***************************************************************************)
(* MS2Library methods.                                                     *)
(***************************************************************************)
\* _get_all_ms2ds_scores: for every query spectrum (a column, labelled with
\* its spectrum id) the scores of all library spectra, in store row order.
get_all_ms2ds_scores(query_spectra) ==
    [q \in DOMAIN query_spectra |->
        [i \in DOMAIN ms2ds_embeddings |->
            <<ms2ds_embeddings[i][1],
              ms2ds_cosine_similarity(ms2ds_embeddings[i][2],
                                      ms2ds_vector(query_spectra[q].peaks))>>]]

\* Line 299: what calculate_averages_and_preselection returns, or the
\* exception of get_closely_related_scores.
returned_preselection(selected_spectrum_ids, average_ms2ds_scores, related_inchikey_scores) ==
    IF related_inchikey_scores.status # "ok" THEN related_inchikey_scores
    ELSE Ok([selected_spectrum_ids |-> selected_spectrum_ids,
             average_ms2ds_scores |-> average_ms2ds_scores,
             related_inchikey_scores |-> related_inchikey_scores.value])

\* Lines 279-299, average_ms2ds_scores being what
\* get_average_ms2ds_for_inchikey14 gave (a result or an exception).
preselection_with_averages(average_ms2ds_scores, ms2ds_scores, preselection_cut_off, closely_related_inchikey14s) ==
    IF average_ms2ds_scores.status # "ok" THEN average_ms2ds_scores
    ELSE returned_preselection(
             index_of(nlargest(ms2ds_scores, preselection_cut_off)),
             average_ms2ds_scores.value,
             get_closely_related_scores(DOMAIN average_ms2ds_scores.value,
                                        closely_related_inchikey14s,
                                        average_ms2ds_scores.value))

\* calculate_averages_and_preselection with sort_on_average_ms2ds = False;
\* ms2ds_scores is one column of the score frame.
calculate_averages_and_preselection(ms2ds_scores, preselection_cut_off, spectra_belonging_to_inchikey14s, closely_related_inchikey14s) ==
    preselection_with_averages(
        get_average_ms2ds_for_inchikey14(loc(ms2ds_scores),
                                         spectra_belonging_to_inchikey14s),
        ms2ds_scores,
        preselection_cut_off,
        closely_related_inchikey14s)

\* get_s2v_scores: .loc of the preselected ids in the s2v store, then the
\* cosine similarity of each with the query vector.
get_s2v_scores(query_spectrum, preselection_of_library_ids) ==
    IF \E i \in DOMAIN preselection_of_library_ids :
          preselection_of_library_ids[i] \notin DOMAIN s2v_embeddings
    THEN Raise("KeyError")
    ELSE Ok([i \in DOMAIN preselection_of_library_ids |->
                s2v_cosine_similarity(s2v_vector(query_spectrum.peaks),
                                      s2v_embeddings[preselection_of_library_ids[i]])])

\* Faulty variant: the sign of the mass difference is kept.
mass_similarity_signed(base, library_parent_mass, query_spectrum_parent_mass) ==
    IF library_parent_mass < query_spectrum_parent_mass THEN Frac(1, 1)
    ELSE Frac(Power(base[1], library_parent_mass - query_spectrum_parent_mass),
              Power(base[2], library_parent_mass - query_spectrum_parent_mass))

\* base_nr_mass_similarity ** abs(parent mass - query parent mass)
mass_similarity(base, library_parent_mass, query_spectrum_parent_mass) ==
    Frac(Power(base[1], Abs(library_parent_mass - query_spectrum_parent_mass)),
         Power(base[2], Abs(library_parent_mass - query_spectrum_parent_mass)))

\* One pass of the loop of select_and_normalize_scores_for_selected_spectra:
\* the values appended for one selected spectrum, or the KeyError of a lookup.
selected_and_normalized_scores(spectrum_id, ms2ds_score, s2v_score, inchikey14s_corresponding_to_spectrum_ids, related_inchikey_score_dict, average_ms2ds_scores, all_parent_masses, query_spectrum_parent_mass) ==
    IF spectrum_id \notin DOMAIN inchikey14s_corresponding_to_spectrum_ids
    THEN Raise("KeyError")
    ELSE LET matching_inchikey14 ==
                 inchikey14s_corresponding_to_spectrum_ids[spectrum_id]
         IN IF \/ matching_inchikey14 \notin DOMAIN related_inchikey_score_dict
               \/ matching_inchikey14 \notin DOMAIN average_ms2ds_scores
               \/ spectrum_id \notin DOMAIN all_parent_masses
            THEN Raise("KeyError")
            ELSE Ok([spectrum_id |-> spectrum_id,
                     parent_mass_divided_by_1000 |->
                         Frac(all_parent_masses[spectrum_id], 1000),
                     mass_similarity |->
                         mass_similarity(settings.base_nr_mass_similarity,
                                         all_parent_masses[spectrum_id],
                                         query_spectrum_parent_mass),
                     s2v_score |-> Frac(s2v_score, 1),
                     ms2ds_score |-> Frac(ms2ds_score, 1),
                     average_ms2ds_score_for_inchikey14 |->
                         average_ms2ds_scores[matching_inchikey14][1],
                     nr_of_spectra_with_same_inchikey14_divided_by_100 |->
                         Frac(average_ms2ds_scores[matching_inchikey14][2], 100),
                     average_ms2ds_score_for_closely_related_inchikey14s |->
                         related_inchikey_score_dict[matching_inchikey14][1],
                     average_tanimoto_score_used_for_closely_related_score |->
                         related_inchikey_score_dict[matching_inchikey14][3],
                     nr_of_spectra_for_closely_related_score_divided_by_100 |->
                         Frac(related_inchikey_score_dict[matching_inchikey14][2], 100)])

\* pd.DataFrame(selected_and_normalized_scores, index=selected_spectra), if
\* no pass of the loop raised an exception.
data_frame(rows) ==
    IF \E i \in DOMAIN rows : rows[i].status # "ok" THEN Raise("KeyError")
    ELSE Ok([i \in DOMAIN rows |-> rows[i].value])

\* select_and_normalize_scores_for_selected_spectra: the data frame, one row
\* per selected spectrum, indexed by selected_spectra.
select_and_normalize_scores_for_selected_spectra(selected_spectra, ms2ds_scores, s2v_scores, inchikey14s_corresponding_to_spectrum_ids, related_inchikey_score_dict, average_ms2ds_scores, all_parent_masses, query_spectrum_parent_mass) ==
    data_frame(
        [i \in DOMAIN selected_spectra |->
            selected_and_normalized_scores(
                selected_spectra[i], loc(ms2ds_scores)[selected_spectra[i]],
                s2v_scores[i], inchikey14s_corresponding_to_spectrum_ids,
                related_inchikey_score_dict, average_ms2ds_scores,
                all_parent_masses, query_spectrum_parent_mass)])

\* Lines 163-166: spectrum id -> structure id, from the structure -> spectra dict.
inchikeys_belonging_to_spectra(spectra_belonging_to_inchikey14s) ==
    [spectrum_id \in UNION {spectra_belonging_to_inchikey14s[inchikey] :
                              inchikey \in DOMAIN spectra_belonging_to_inchikey14s} |->
        CHOOSE inchikey \in DOMAIN spectra_belonging_to_inchikey14s :
            spectrum_id \in spectra_belonging_to_inchikey14s[inchikey]]

\* Lines 192-202: the data frame of a query spectrum, s2v_scores being what
\* get_s2v_scores gave (a result or an exception).
spectra_info_with_s2v_scores(s2v_scores, preselection, ms2ds_scores, query_spectrum) ==
    IF s2v_scores.status # "ok" THEN s2v_scores
    ELSE select_and_normalize_scores_for_selected_spectra(
             preselection.selected_spectrum_ids,
             ms2ds_scores,
             s2v_scores.value,
             inchikeys_belonging_to_spectra(
                 sqlite_file.spectra_belonging_to_inchikey14s),
             preselection.related_inchikey_scores,
             preselection.average_ms2ds_scores,
             sqlite_file.parent_mass,
             query_spectrum.parent_mass)

\* Lines 189-202, preselection being what
\* calculate_averages_and_preselection gave (a result or an exception).
spectra_info_of_preselection(preselection, ms2ds_scores, query_spectrum) ==
    IF preselection.status # "ok" THEN preselection
    ELSE spectra_info_with_s2v_scores(
             get_s2v_scores(query_spectrum,
                            preselection.value.selected_spectrum_ids),
             preselection.value,
             ms2ds_scores,
             query_spectrum)

\* The body of the loop of collect_matches_data_multiple_spectra for the
\* q-th query spectrum: its data frame, or the exception raised.
\* ms2ds_scores[spectrum_id] is a frame, not a series, when several columns
\* carry the label; DataFrame.nlargest(n) without columns is a TypeError.
preselected_spectra_info(query_spectra, q, preselection_cut_off) ==
    IF Cardinality({j \in DOMAIN query_spectra :
                       query_spectra[j].spectrumid = query_spectra[q].spectrumid}) > 1
    THEN Raise("TypeError")
    ELSE spectra_info_of_preselection(
             calculate_averages_and_preselection(
                 get_all_ms2ds_scores(query_spectra)[q],
                 preselection_cut_off,
                 sqlite_file.spectra_belonging_to_inchikey14s,
                 sqlite_file.closely_related_inchikey14s),
             get_all_ms2ds_scores(query_spectra)[q],
             query_spectra[q])

\* dict[key] = value on a dict kept as the sequence of its <<key, value>>
\* items in insertion order.
dict_set(items, key, value) ==
    IF \E i \in DOMAIN items : items[i][1] = key
    THEN [i \in DOMAIN items |-> IF items[i][1] = key THEN <<key, value>> ELSE items[i]]
    ELSE Append(items, <<key, value>>)

\* dict_with_preselected_spectra_info after the first n query spectra, of
\* which the q-th has the data frame infos[q].value.
RECURSIVE dict_with_preselected_spectra_info(_, _, _)
dict_with_preselected_spectra_info(query_spectra, infos, n) ==
    IF n = 0 THEN <<>>
    ELSE dict_set(dict_with_preselected_spectra_info(query_spectra, infos, n - 1),
                  query_spectra[n].spectrumid,
                  infos[n].value)

\* The loop over query_spectra, infos[q] being what its body gives for the
\* q-th: the exception of the first that raises one, else the dict.
collected_matches_data(query_spectra, infos) ==
    IF \E q \in DOMAIN infos : infos[q].status # "ok"
    THEN Raise(infos[CHOOSE q \in DOMAIN infos :
                         /\ infos[q].status # "ok"
                         /\ \A earlier \in 1..(q - 1) : infos[earlier].status = "ok"].status)
    ELSE Ok(dict_with_preselected_spectra_info(query_spectra, infos, Len(query_spectra)))

collect_matches_data_multiple_spectra(query_spectra, preselection_cut_off) ==
    collected_matches_data(
        query_spectra,
        [q \in DOMAIN query_spectra |->
            preselected_spectra_info(query_spectra, q, preselection_cut_off)])

(***************************************************************************)
(* The ranking model and get_ms2query_model_prediction.                    *)
(***************************************************************************)
\* The model files a caller can name: each a function of the feature row.
Ms2queryModels == {"ms2ds_score", "mass_similarity"}

\* ms2query_nn_model.predict on one row; a NaN feature gives a NaN prediction.
predict(ms2query_model_file_name, row) ==
    IF IsNaN(row.average_ms2ds_score_for_closely_related_inchikey14s) THEN NaN
    ELSE IF ms2query_model_file_name = "ms2ds_score" THEN row.ms2ds_score
    ELSE row.mass_similarity

\* DataFrame.sort_values(by=[column], ascending=False) on fraction keys:
\* NaN keys last in their input order, equal keys as the argsort kind has it.
sort_values_descending(keys, kind) ==
    LET before == [j \in DOMAIN keys, i \in DOMAIN keys |->
                      \/ ~IsNaN(keys[j]) /\ IsNaN(keys[i])
                      \/ FracLess(keys[i], keys[j])
                      \/ IsNaN(keys[j]) /\ IsNaN(keys[i]) /\ j < i
                      \/ FracEq(keys[j], keys[i])
                             /\ (IF kind = "stable" THEN j < i ELSE j > i)]
    IN SortedBy(Len(keys), before)

\* Faulty variant: the frame is sorted ascending.
sorted_by_prediction_ascending(with_prediction) ==
    LET order == sort_values_descending(
                     [i \in DOMAIN with_prediction |->
                         with_prediction[i].ms2query_model_prediction],
                     argsort_kind_of_call)
    IN [r \in DOMAIN with_prediction |->
           with_prediction[order[Len(with_prediction) + 1 - r]]]

\* Faulty variant: the rows without a prediction are dropped.
sorted_by_prediction_without_nan(with_prediction) ==
    LET order == sort_values_descending(
                     [i \in DOMAIN with_prediction |->
                         with_prediction[i].ms2query_model_prediction],
                     argsort_kind_of_call)
    IN SelectSeq([r \in DOMAIN with_prediction |-> with_prediction[order[r]]],
                 LAMBDA row : ~IsNaN(row.ms2query_model_prediction))

\* current_query_matches_info.sort_values(by=["ms2query_model_prediction"],
\*                                        ascending=False)
sorted_by_prediction(with_prediction) ==
    LET order == sort_values_descending(
                     [i \in DOMAIN with_prediction |->
                         with_prediction[i].ms2query_model_prediction],
                     argsort_kind_of_call)
    IN [r \in DOMAIN with_prediction |-> with_prediction[order[r]]]

\* The frame of one query with the prediction column added, sorted.
with_ms2query_model_prediction(current_query_matches_info, ms2query_model_file_name) ==
    sorted_by_prediction(
        [i \in DOMAIN current_query_matches_info |->
            [spectrum_id |-> current_query_matches_info[i].spectrum_id,
             parent_mass_divided_by_1000 |->
                 current_query_matches_info[i].parent_mass_divided_by_1000,
             mass_similarity |-> current_query_matches_info[i].mass_similarity,
             s2v_score |-> current_query_matches_info[i].s2v_score,
             ms2ds_score |-> current_query_matches_info[i].ms2ds_score,
             average_ms2ds_score_for_inchikey14 |->
                 current_query_matches_info[i].average_ms2ds_score_for_inchikey14,
             nr_of_spectra_with_same_inchikey14_divided_by_100 |->
                 current_query_matches_info[i].nr_of_spectra_with_same_inchikey14_divided_by_100,
             average_ms2ds_score_for_closely_related_inchikey14s |->
                 current_query_matches_info[i].average_ms2ds_score_for_closely_related_inchikey14s,
             average_tanimoto_score_used_for_closely_related_score |->
                 current_query_matches_info[i].average_tanimoto_score_used_for_closely_related_score,
             nr_of_spectra_for_closely_related_score_divided_by_100 |->
                 current_query_matches_info[i].nr_of_spectra_for_closely_related_score_divided_by_100,
             ms2query_model_prediction |->
                 predict(ms2query_model_file_name, current_query_matches_info[i])]])

\* None as the value of a key of matches_info: no frame. It is written as
\* a value that no frame equals, one row that has no column but the label.
None == <<[spectrum_id |-> "None"]>>

\* get_ms2query_model_prediction: every frame of the dict replaced by the
\* frame with predictions, the keys that have None passed over; predict on
\* a frame without rows is a ValueError.
get_ms2query_model_prediction(matches_info, ms2query_model_file_name) ==
    IF \E i \in DOMAIN matches_info : matches_info[i][2] = <<>>
    THEN Raise("ValueError")
    ELSE Ok([i \in DOMAIN matches_info |->
                <<matches_info[i][1],
                  IF matches_info[i][2] = None THEN None
                  ELSE with_ms2query_model_prediction(matches_info[i][2],
                                                      ms2query_model_file_name)>>])

\* Lines 132-136, preselected_matches_info being what
\* collect_matches_data_multiple_spectra gave (a result or an exception).
preselected_matches_with_prediction(preselected_matches_info, ms2query_model_file_name) ==
    IF preselected_matches_info.status # "ok" THEN preselected_matches_info
    ELSE get_ms2query_model_prediction(preselected_matches_info.value,
                                       ms2query_model_file_name)

select_best_matches(query_spectra, ms2query_model_file_name, preselection_cut_off) ==
    preselected_matches_with_prediction(
        collect_matches_data_multiple_spectra(query_spectra, preselection_cut_off),
        ms2query_model_file_name)

(***************************************************************************)
(* The calls a user of the library makes.                                  *)
(***************************************************************************)
\* Query spectra: spectrum id, peak pattern, parent mass.
QuerySpectra ==
    [spectrumid : QueryIds, peaks : 0..MaxPeaks, parent_mass : 1..MaxQueryMass]

\* Query ids are names: the first spectrum of a list has the first of them.
QueryLists ==
    UNION {{query_spectra \in [1..n -> QuerySpectra] :
               query_spectra[1].spectrumid = "q1"} : n \in 1..MaxBatch}

CollectMatchesDataMultipleSpectra ==
    /\ UNCHANGED <<file_system, library, agg>>
    /\ call = NoCall
    /\ \E query_spectra \in QueryLists, preselection_cut_off \in 1..MaxCutOff :
          call' = [op |-> "collect_matches_data_multiple_spectra",
                   query_spectra |-> query_spectra,
                   preselection_cut_off |-> preselection_cut_off,
                   ret |-> collect_matches_data_multiple_spectra(
                               query_spectra, preselection_cut_off)]

SelectBestMatches ==
    /\ UNCHANGED <<file_system, library, agg>>
    /\ call = NoCall
    /\ \E query_spectra \in QueryLists, preselection_cut_off \in 1..MaxCutOff,
          ms2query_model_file_name \in Ms2queryModels :
          call' = [op |-> "select_best_matches",
                   query_spectra |-> query_spectra,
                   ms2query_model_file_name |-> ms2query_model_file_name,
                   preselection_cut_off |-> preselection_cut_off,
                   ret |-> select_best_matches(query_spectra,
                                               ms2query_model_file_name,
                                               preselection_cut_off),
                   runs |-> 1,
                   previous_ret |-> <<>>]

\* select_best_matches called once more with the arguments of the call
\* before, on the unchanged library.
SelectBestMatchesAgain ==
    /\ UNCHANGED <<file_system, library, agg>>
    /\ call.op = "select_best_matches"
    /\ call.runs = 1
    /\ call' = [call EXCEPT
                   !.ret = select_best_matches(call.query_spectra,
                                               call.ms2query_model_file_name,
                                               call.preselection_cut_off),
                   !.runs = 2,
                   !.previous_ret = call.ret]

\* The caller is done with the returned tables.
Return ==
    /\ UNCHANGED <<file_system, library, agg>>
    /\ call # NoCall
    /\ call' = NoCall

Next ==
    \/ CollectMatchesDataMultipleSpectra
    \/ SelectBestMatches
    \/ SelectBestMatchesAgain
    \/ Return

Spec == Init /\ [][Next]_vars

SpecUnlisted == UnlistedInit /\ [][Next]_vars

(***************************************************************************)
(* Sums used to state the properties, written over sets of values and of   *)
(* positions instead of the loops of the code.                             *)
(***************************************************************************)
\* The sum of the scores of the spectra in S, counted value by value.
RECURSIVE ScoreTotalUpTo(_, _, _)
ScoreTotalUpTo(scores, S, v) ==
    IF v = 0 THEN 0
    ELSE v * Cardinality({s \in S : scores[s] = v}) + ScoreTotalUpTo(scores, S, v - 1)

ScoreTotal(scores, S) == ScoreTotalUpTo(scores, S, MaxScore)

\* The sum of term[i] (integers) over the positions in I.
RECURSIVE IntSum(_, _)
IntSum(term, I) ==
    IF I = {} THEN 0
    ELSE LET i == CHOOSE j \in I : TRUE IN term[i] + IntSum(term, I \ {i})

\* The sum of term[i] (fractions) over the positions in I.
RECURSIVE FracSum(_, _)
FracSum(term, I) ==
    IF I = {} THEN Frac(0, 1)
    ELSE LET i == CHOOSE j \in I : TRUE IN FracAdd(term[i], FracSum(term, I \ {i}))

(***************************************************************************)
(* C5.  get_average_ms2ds_for_inchikey14: a structure with at least one    *)
(* member spectrum gets the pair (sum of its members' scores divided by    *)
(* its member count, member count); a structure without members gets no    *)
(* entry, so nothing is divided by zero and no NaN appears; the result     *)
(* has no key outside the input mapping.                                   *)
(***************************************************************************)
C5_AverageIsSumOverCount ==
    agg.op = "get_average_ms2ds_for_inchikey14" =>
        /\ agg.ret.status = "ok"
        /\ DOMAIN agg.ret.value \subseteq DOMAIN agg.spectra_belonging_to_inchikey14s
        /\ \A inchikey14 \in DOMAIN agg.spectra_belonging_to_inchikey14s :
              LET members == agg.spectra_belonging_to_inchikey14s[inchikey14]
                  member_count == Cardinality(members)
              IN IF member_count = 0
                 THEN inchikey14 \notin DOMAIN agg.ret.value
                 ELSE /\ inchikey14 \in DOMAIN agg.ret.value
                      /\ agg.ret.value[inchikey14][2] = member_count
                      /\ FracEq(agg.ret.value[inchikey14][1],
                                <<ScoreTotal(agg.ms2ds_scores, members), member_count>>)

\* A structure with two members of different scores beside a structure
\* without members.
C5_Witness ==
    /\ agg.op = "get_average_ms2ds_for_inchikey14"
    /\ \E k1, k2 \in Inchikeys :
          /\ agg.spectra_belonging_to_inchikey14s[k2] = {}
          /\ \E s1, s2 \in agg.spectra_belonging_to_inchikey14s[k1] :
                agg.ms2ds_scores[s1] < agg.ms2ds_scores[s2]
          /\ agg.ret.value[k1][2] = 2

(***************************************************************************)
(* C6.  get_closely_related_scores: when the call returns, the result has  *)
(* exactly one entry per selected structure S, and with neighbours         *)
(* (N_i, t_i) of own aggregates (avg_i, count_i) the entry is              *)
(*   ( sum(count_i * t_i * avg_i) / sum(count_i * t_i),                     *)
(*     sum(count_i),  sum(count_i * t_i) / sum(count_i) ).                  *)
(* The first component is compared where the total weight is not zero.     *)
(***************************************************************************)
C6_RelatedScoresFormula ==
    (agg.op = "get_closely_related_scores" /\ agg.ret.status = "ok") =>
        /\ DOMAIN agg.ret.value = agg.selected_inchikey14s
        /\ \A S \in agg.selected_inchikey14s :
              LET nbs == agg.closest_related_inchikey14s[S]
                  avg == [i \in DOMAIN nbs |-> agg.average_inchikey_scores[nbs[i][1]][1]]
                  count == [i \in DOMAIN nbs |-> agg.average_inchikey_scores[nbs[i][1]][2]]
                  weight == [i \in DOMAIN nbs |-> count[i] * nbs[i][2]]
                  total_weight == IntSum(weight, DOMAIN nbs)
                  total_count == IntSum(count, DOMAIN nbs)
                  weighted == [i \in DOMAIN nbs |-> FracMul(Frac(weight[i], 1), avg[i])]
                  triple == agg.ret.value[S]
              IN /\ triple[2] = total_count
                 /\ FracEq(triple[3], <<total_weight, total_count>>)
                 /\ total_weight # 0 =>
                        FracEq(FracMul(triple[1], Frac(total_weight, 1)),
                               FracSum(weighted, DOMAIN nbs))

\* A selected structure with two neighbours that differ in tanimoto score,
\* member count and own average.
C6_Witness ==
    /\ agg.op = "get_closely_related_scores"
    /\ agg.ret.status = "ok"
    /\ \E S \in agg.selected_inchikey14s :
          LET nbs == agg.closest_related_inchikey14s[S]
          IN /\ Len(nbs) = 2
             /\ nbs[1][2] > nbs[2][2]
             /\ nbs[2][2] > 0
             /\ agg.average_inchikey_scores[nbs[1][1]][2]
                    # agg.average_inchikey_scores[nbs[2][1]][2]
             /\ agg.average_inchikey_scores[nbs[1][1]][1]
                    # agg.average_inchikey_scores[nbs[2][1]][1]

(***************************************************************************)
(* Statements about the tables a call returned.                            *)
(***************************************************************************)
\* The call in `call` is one of op and returned.
Returned(op) == call.op = op /\ call.ret.status = "ok"

\* The tables of the returned dict.
ReturnedTables == {call.ret.value[i][2] : i \in DOMAIN call.ret.value}

\* The spectrum ids of the rows of a table, in row order.
RowIds(table) == [r \in DOMAIN table |-> table[r].spectrum_id]

Min(a, b) == IF a < b THEN a ELSE b

LibraryIds == {ms2ds_embeddings[i][1] : i \in DOMAIN ms2ds_embeddings}

(***************************************************************************)
(* C1.  Every table select_best_matches returns has at most                *)
(* preselection_cut_off rows, and its ms2query_model_prediction column     *)
(* never increases from a row to a later row.                              *)
(***************************************************************************)
C1_AtMostNRowsSortedDescending ==
    Returned("select_best_matches") =>
        \A table \in ReturnedTables :
            /\ Len(table) <= call.preselection_cut_off
            /\ \A r1, r2 \in DOMAIN table :
                   r1 < r2 => ~FracLess(table[r1].ms2query_model_prediction,
                                        table[r2].ms2query_model_prediction)

\* A returned table of two rows, the first with the larger prediction, that
\* was preselected in the other order.
C1_Witness ==
    /\ Returned("select_best_matches")
    /\ \E table \in ReturnedTables :
          /\ Len(table) = 2
          /\ FracLess(table[2].ms2query_model_prediction,
                      table[1].ms2query_model_prediction)
          /\ FracLess(table[1].ms2ds_score, table[2].ms2ds_score)

(***************************************************************************)
(* C2.  For a list of k query spectra, with distinct spectrum ids or not,  *)
(* collect_matches_data_multiple_spectra and select_best_matches return k  *)
(* tables, the i-th that of the i-th query spectrum. Stated for a library  *)
(* that has spectra and the lists of which every spectrum, queried alone,  *)
(* gets its table.                                                         *)
(***************************************************************************)
EachAloneReturns ==
    \A q \in DOMAIN call.query_spectra :
        IF call.op = "select_best_matches"
        THEN select_best_matches(<<call.query_spectra[q]>>,
                                 call.ms2query_model_file_name,
                                 call.preselection_cut_off).status = "ok"
        ELSE collect_matches_data_multiple_spectra(
                 <<call.query_spectra[q]>>,
                 call.preselection_cut_off).status = "ok"

C2_OneTablePerQuerySpectrum ==
    (call # NoCall /\ LibraryIds # {} /\ EachAloneReturns) =>
        /\ call.ret.status = "ok"
        /\ Len(call.ret.value) = Len(call.query_spectra)
        /\ \A q \in DOMAIN call.query_spectra :
               call.ret.value[q][1] = call.query_spectra[q].spectrumid

C4_ExactlyMinOfCutOffAndLibrarySize ==
    (Returned("collect_matches_data_multiple_spectra")
         \/ Returned("select_best_matches")) =>
        \A table \in ReturnedTables :
            /\ Len(table) = Min(call.preselection_cut_off, Len(ms2ds_embeddings))
            /\ \A r \in DOMAIN table : table[r].spectrum_id \in LibraryIds
            /\ \A r1, r2 \in DOMAIN table :
                   table[r1].spectrum_id = table[r2].spectrum_id => r1 = r2

\* A table cut to fewer rows than the library has spectra.
C4_Witness ==
    /\ Returned("collect_matches_data_multiple_spectra")
    /\ call.preselection_cut_off < Len(ms2ds_embeddings)
    /\ \E table \in ReturnedTables : Len(table) = call.preselection_cut_off

\* A table of a library that has fewer spectra than the cut-off.
C4_WitnessSmallLibrary ==
    /\ Returned("collect_matches_data_multiple_spectra")
    /\ Len(ms2ds_embeddings) = 1
    /\ call.preselection_cut_off = 2
    /\ \E table \in ReturnedTables : Len(table) = 1

(***************************************************************************)
(* C7.  A structure without member spectra in the structure index, also    *)
(* one listed among the neighbours of another structure, does not make     *)
(* collect_matches_data_multiple_spectra fail: the call returns a table    *)
(* for the query. Stated for libraries and query lists with nothing else   *)
(* out of the ordinary: every library spectrum has a structure, every      *)
(* structure has neighbours, and the query spectrum ids are distinct.      *)
(***************************************************************************)
SomeInchikeyWithoutSpectra ==
    \E inchikey \in Inchikeys :
        sqlite_file.spectra_belonging_to_inchikey14s[inchikey] = {}

EverySpectrumHasInchikey ==
    \A spectrum_id \in LibraryIds :
        \E inchikey \in Inchikeys :
            spectrum_id \in sqlite_file.spectra_belonging_to_inchikey14s[inchikey]

EveryInchikeyHasNeighbours ==
    \A inchikey \in Inchikeys :
        sqlite_file.closely_related_inchikey14s[inchikey] # <<>>

DistinctQueryIds ==
    \A q1, q2 \in DOMAIN call.query_spectra :
        call.query_spectra[q1].spectrumid = call.query_spectra[q2].spectrumid
            => q1 = q2

C7_InchikeyWithoutSpectraDoesNotFail ==
    (/\ call.op = "collect_matches_data_multiple_spectra"
     /\ SomeInchikeyWithoutSpectra
     /\ LibraryIds # {}
     /\ EverySpectrumHasInchikey
     /\ EveryInchikeyHasNeighbours
     /\ DistinctQueryIds) =>
        /\ call.ret.status = "ok"
        /\ Len(call.ret.value) = Len(call.query_spectra)

(***************************************************************************)
(* C8.  The feature table has one row per preselected spectrum id, in the  *)
(* order of the preselection, and a candidate without a structure id does  *)
(* not make the call fail. Stated for the calls in which the preselection  *)
(* and the aggregates of every query spectrum were computed.               *)
(***************************************************************************)
PreselectionOf(q) ==
    calculate_averages_and_preselection(
        get_all_ms2ds_scores(call.query_spectra)[q],
        call.preselection_cut_off,
        sqlite_file.spectra_belonging_to_inchikey14s,
        sqlite_file.closely_related_inchikey14s)

C8_OneRowPerPreselectedSpectrum ==
    (/\ call.op = "collect_matches_data_multiple_spectra"
     /\ DistinctQueryIds
     /\ \A q \in DOMAIN call.query_spectra : PreselectionOf(q).status = "ok") =>
        /\ call.ret.status = "ok"
        /\ \A q \in DOMAIN call.query_spectra :
               RowIds(call.ret.value[q][2])
                   = PreselectionOf(q).value.selected_spectrum_ids

(***************************************************************************)
(* C9.  In every row of a feature table, parent_mass_divided_by_1000 is    *)
(* the library parent mass of the candidate / 1000, mass_similarity is     *)
(* base_nr_mass_similarity (4/5 unless the settings say otherwise) to the  *)
(* power |library parent mass - query parent mass|, and the two count      *)
(* columns are the number of spectra of the candidate's structure / 100    *)
(* and the number of spectra of all its neighbours / 100.                  *)
(***************************************************************************)
RECURSIVE FracPower(_, _)
FracPower(base, exponent) ==
    IF exponent = 0 THEN Frac(1, 1)
    ELSE FracMul(base, FracPower(base, exponent - 1))

InchikeyOf(spectrum_id) ==
    CHOOSE inchikey \in Inchikeys :
        spectrum_id \in sqlite_file.spectra_belonging_to_inchikey14s[inchikey]

NrOfSpectra(inchikey) ==
    Cardinality(sqlite_file.spectra_belonging_to_inchikey14s[inchikey])

NrOfSpectraOfNeighbours(inchikey) ==
    LET neighbours == sqlite_file.closely_related_inchikey14s[inchikey]
    IN IntSum([i \in DOMAIN neighbours |-> NrOfSpectra(neighbours[i][1])],
              DOMAIN neighbours)

BaseInUse ==
    IF settings = default_settings THEN Frac(4, 5)
    ELSE settings.base_nr_mass_similarity

PositionIn(spectrum_ids, spectrum_id) ==
    CHOOSE i \in DOMAIN spectrum_ids : spectrum_ids[i] = spectrum_id

C11_EqualPredictionsKeepPreselectionOrder ==
    Returned("select_best_matches") =>
        \A q \in DOMAIN call.ret.value :
            LET table == call.ret.value[q][2]
                preselected == PreselectionOf(q).value.selected_spectrum_ids
            IN \A r1, r2 \in DOMAIN table :
                   (/\ r1 < r2
                    /\ FracEq(table[r1].ms2query_model_prediction,
                              table[r2].ms2query_model_prediction))
                       => PositionIn(preselected, table[r1].spectrum_id)
                              < PositionIn(preselected, table[r2].spectrum_id)

(***************************************************************************)
(* C12.  Of library spectra with the same ms2ds score the one with the     *)
(* lexicographically lower spectrum id is preferred: the higher id is not  *)
(* preselected without the lower, and in the preselected table the lower   *)
(* id comes first, whatever the row order of the ms2ds store.              *)
(***************************************************************************)
\* The ms2ds score of a library spectrum for the q-th query spectrum.
Ms2dsScoreOf(q, spectrum_id) ==
    loc(get_all_ms2ds_scores(call.query_spectra)[q])[spectrum_id]

C12_LowerSpectrumIdWinsTies ==
    Returned("collect_matches_data_multiple_spectra") =>
        \A q \in DOMAIN call.ret.value :
            LET selected == RowIds(call.ret.value[q][2])
                Selected(spectrum_id) ==
                    \E r \in DOMAIN selected : selected[r] = spectrum_id
            IN \A lower, higher \in LibraryIds :
                   (/\ Rank(lower) < Rank(higher)
                    /\ Ms2dsScoreOf(q, lower) = Ms2dsScoreOf(q, higher)
                    /\ Selected(higher))
                       => /\ Selected(lower)
                          /\ PositionIn(selected, lower) < PositionIn(selected, higher)

(***************************************************************************)
(* C15.  Preselection on a library without spectra fails with an           *)
(* InsufficientLibraryError that reaches the caller, and on a library      *)
(* with spectra no call fails with that error.                             *)
(***************************************************************************)
C15_EmptyLibraryIsInsufficientLibraryError ==
    call # NoCall =>
        (LibraryIds = {} <=> call.ret.status = "InsufficientLibraryError")

\* The structures with library spectra: the keys of the own-aggregate table.
InchikeysWithSpectra ==
    {inchikey \in Inchikeys :
        sqlite_file.spectra_belonging_to_inchikey14s[inchikey] # {}}

\* A structure with spectra is missing from the neighbour table.
SomeInchikeyUnlisted ==
    \E inchikey \in InchikeysWithSpectra :
        inchikey \notin DOMAIN sqlite_file.closely_related_inchikey14s

\* A listed structure with spectra has a neighbour without own aggregate.
SomeNeighbourWithoutAverage ==
    \E inchikey \in InchikeysWithSpectra \cap DOMAIN sqlite_file.closely_related_inchikey14s :
        \E i \in DOMAIN sqlite_file.closely_related_inchikey14s[inchikey] :
            sqlite_file.closely_related_inchikey14s[inchikey][i][1] \notin InchikeysWithSpectra

\* A listed structure with spectra has no neighbours, so that its weights
\* add up to zero.
SomeNeighbourListEmpty ==
    \E inchikey \in InchikeysWithSpectra \cap DOMAIN sqlite_file.closely_related_inchikey14s :
        sqlite_file.closely_related_inchikey14s[inchikey] = <<>>

(***************************************************************************)
(* C16.  When a structure with spectra is missing from the neighbour       *)
(* table, or a neighbour has no own aggregate, every call of the query     *)
(* pipeline fails: the caller gets the KeyError of the lookup (or the      *)
(* ZeroDivisionError of a structure visited before it), never a table.     *)
(***************************************************************************)
C16_UnknownInchikeyFailsTheCall ==
    (/\ call # NoCall
     /\ DistinctQueryIds
     /\ SomeInchikeyUnlisted \/ SomeNeighbourWithoutAverage)
        => /\ call.ret.status # "ok"
           /\ call.ret.status = "KeyError" \/ SomeNeighbourListEmpty

\* select_best_matches failed with KeyError because the second structure has
\* spectra and is not in the neighbour table, nothing else being wrong.
C16_Witness ==
    /\ call # NoCall
    /\ call.op = "select_best_matches"
    /\ DistinctQueryIds
    /\ Len(call.query_spectra) = MaxBatch
    /\ SomeInchikeyUnlisted
    /\ ~SomeNeighbourWithoutAverage
    /\ ~SomeNeighbourListEmpty
    /\ call.ret.status = "KeyError"

(***************************************************************************)
(* select_potential_true_matches                                           *)
(***************************************************************************)
MaxTolerance == 1

\* get_parent_mass_within_range: the (spectrum id, parent mass) rows of the
\* library spectra with lower_bound <= parent mass <= upper_bound.
get_parent_mass_within_range(lower_bound, upper_bound) ==
    LET within == {spectrum_id \in DOMAIN sqlite_file.parent_mass :
                      /\ lower_bound <= sqlite_file.parent_mass[spectrum_id]
                      /\ sqlite_file.parent_mass[spectrum_id] <= upper_bound}
        ids == InOrder(SpectrumIdOrder, within)
    IN [i \in DOMAIN ids |-> <<ids[i], sqlite_file.parent_mass[ids[i]]>>]

\* Faulty variant: a score equal to the threshold passes.
s2v_score_passes_when_equal(s2v_score, s2v_score_threshold) ==
    s2v_score >= s2v_score_threshold

s2v_score_passes(s2v_score, s2v_score_threshold) == s2v_score > s2v_score_threshold

\* found_matches after the first n passes of the inner loop.
RECURSIVE found_matches(_, _, _, _)
found_matches(selected_library_spectra, s2v_scores, s2v_score_threshold, n) ==
    IF n = 0 THEN <<>>
    ELSE IF s2v_score_passes(s2v_scores[n], s2v_score_threshold)
    THEN Append(found_matches(selected_library_spectra, s2v_scores,
                              s2v_score_threshold, n - 1),
                selected_library_spectra[n])
    ELSE found_matches(selected_library_spectra, s2v_scores, s2v_score_threshold, n - 1)

\* [result[0] for result in parent_masses_within_mass_tolerance]
first_of_each(results) == [i \in DOMAIN results |-> results[i][1]]

\* One pass of the outer loop, from selected_library_spectra on.
found_matches_of(query_spectrum, selected_library_spectra, s2v_score_threshold) ==
    found_matches(selected_library_spectra,
                  get_s2v_scores(query_spectrum, selected_library_spectra).value,
                  s2v_score_threshold, Len(selected_library_spectra))

\* found_matches_dict after the first n query spectra.
RECURSIVE found_matches_dict(_, _, _, _)
found_matches_dict(query_spectra, mass_tolerance, s2v_score_threshold, n) ==
    IF n = 0 THEN <<>>
    ELSE dict_set(found_matches_dict(query_spectra, mass_tolerance,
                                     s2v_score_threshold, n - 1),
                  query_spectra[n].spectrumid,
                  found_matches_of(query_spectra[n],
                      first_of_each(get_parent_mass_within_range(
                          query_spectra[n].parent_mass - mass_tolerance,
                          query_spectra[n].parent_mass + mass_tolerance)),
                      s2v_score_threshold))

select_potential_true_matches(query_spectra, mass_tolerance, s2v_score_threshold) ==
    Ok(found_matches_dict(query_spectra, mass_tolerance, s2v_score_threshold,
                          Len(query_spectra)))

SelectPotentialTrueMatches ==
    /\ UNCHANGED <<file_system, library, agg>>
    /\ call = NoCall
    /\ \E query_spectra \in QueryLists, mass_tolerance \in 0..MaxTolerance, s2v_score_threshold \in 0..MaxPeaks :
          call' = [op |-> "select_potential_true_matches",
                   query_spectra |-> query_spectra,
                   mass_tolerance |-> mass_tolerance,
                   s2v_score_threshold |-> s2v_score_threshold,
                   ret |-> select_potential_true_matches(query_spectra, mass_tolerance,
                                                         s2v_score_threshold)]

TrueMatchesNext == SelectPotentialTrueMatches \/ Return

SpecTrueMatches == Init /\ [][TrueMatchesNext]_vars

\* The last query spectrum of the call with the given spectrum id.
LastQueryWithId(spectrum_id) ==
    call.query_spectra[CHOOSE q \in DOMAIN call.query_spectra :
        /\ call.query_spectra[q].spectrumid = spectrum_id
        /\ \A later \in DOMAIN call.query_spectra :
               call.query_spectra[later].spectrumid = spectrum_id => later <= q]

\* The library spectrum has a parent mass within the tolerance of the query's.
WithinTolerance(query_spectrum, spectrum_id) ==
    /\ query_spectrum.parent_mass - call.mass_tolerance <= sqlite_file.parent_mass[spectrum_id]
    /\ sqlite_file.parent_mass[spectrum_id] <= query_spectrum.parent_mass + call.mass_tolerance

\* The s2v score of a query spectrum and a library spectrum.
S2vScore(query_spectrum, spectrum_id) ==
    s2v_cosine_similarity(s2v_vector(query_spectrum.peaks), s2v_embeddings[spectrum_id])

\* The ids the mass range query returns for a query spectrum, in its order.
RangeQueryIds(query_spectrum) ==
    first_of_each(get_parent_mass_within_range(
        query_spectrum.parent_mass - call.mass_tolerance,
        query_spectrum.parent_mass + call.mass_tolerance))

(***************************************************************************)
(* C18.  select_potential_true_matches returns a dict whose keys are the   *)
(* spectrum ids of the query spectra.  The value of an id (of the last     *)
(* query spectrum with that id) lists exactly the library spectra with a   *)
(* parent mass within mass_tolerance of the query's and an s2v score       *)
(* strictly above s2v_score_threshold, in the order of the range query.    *)
(***************************************************************************)
C18_MatchesWithinToleranceAboveThreshold ==
    Returned("select_potential_true_matches") =>
        /\ {call.ret.value[k][1] : k \in DOMAIN call.ret.value}
               = {call.query_spectra[q].spectrumid : q \in DOMAIN call.query_spectra}
        /\ \A k \in DOMAIN call.ret.value :
               LET query_spectrum == LastQueryWithId(call.ret.value[k][1])
                   matches == call.ret.value[k][2]
               IN /\ {matches[i] : i \in DOMAIN matches}
                         = {spectrum_id \in LibraryIds :
                               /\ WithinTolerance(query_spectrum, spectrum_id)
                               /\ S2vScore(query_spectrum, spectrum_id)
                                      > call.s2v_score_threshold}
                  /\ \A i, j \in DOMAIN matches :
                         i < j => PositionIn(RangeQueryIds(query_spectrum), matches[i])
                                      < PositionIn(RangeQueryIds(query_spectrum), matches[j])

\* Two query spectra with different ids; for one of them a library spectrum
\* is listed, one is left out for its mass and one for a score that equals
\* the threshold.
C18_Witness ==
    /\ Returned("select_potential_true_matches")
    /\ Len(call.ret.value) = 2
    /\ \E k \in DOMAIN call.ret.value :
           /\ call.ret.value[k][2] # <<>>
    /\ \E q \in DOMAIN call.query_spectra, spectrum_id \in LibraryIds :
           ~WithinTolerance(call.query_spectra[q], spectrum_id)
    /\ \E q \in DOMAIN call.query_spectra, spectrum_id \in LibraryIds :
           /\ WithinTolerance(call.query_spectra[q], spectrum_id)
           /\ S2vScore(call.query_spectra[q], spectrum_id) = call.s2v_score_threshold

(***************************************************************************)
(* What the query methods leave of the library.                            *)
(*                                                                         *)
(* No query method assigns an attribute of self: the settings, the sqlite  *)
(* file and the ms2ds store are only read (self.settings[...], the select  *)
(* functions on sqlite_file_location, .to_numpy() and .index), and the s2v *)
(* store is read through .loc with a list of labels.                       *)
(***************************************************************************)
\* Faulty variant: the selection is made in the store itself.
after_loc_in_place(store, labels) ==
    [label \in {l \in DOMAIN store : \E i \in DOMAIN labels : labels[i] = l} |->
        store[label]]

\* The frame behind frame.loc[labels]: .loc with a list of labels builds a
\* new frame (or raises KeyError), the frame it is taken from keeps its rows.
after_loc(store, labels) == store

\* self.s2v_embeddings after the first n calls of get_s2v_scores of a loop,
\* the n-th with the ids id_lists[n].
RECURSIVE after_get_s2v_scores(_, _, _)
after_get_s2v_scores(store, id_lists, n) ==
    IF n = 0 THEN store
    ELSE after_loc(after_get_s2v_scores(store, id_lists, n - 1), id_lists[n])

\* The ids the first n passes of the loop of
\* collect_matches_data_multiple_spectra hand to get_s2v_scores: those of
\* every pass up to the first that raises an exception, if
\* calculate_averages_and_preselection returned in it.
RECURSIVE ids_of_collected_matches(_, _, _)
ids_of_collected_matches(query_spectra, preselection_cut_off, n) ==
    IF n = 0 THEN <<>>
    ELSE IF \/ \E q \in 1..(n - 1) :
                  preselected_spectra_info(query_spectra, q,
                                           preselection_cut_off).status # "ok"
            \/ Cardinality({j \in DOMAIN query_spectra :
                   query_spectra[j].spectrumid = query_spectra[n].spectrumid}) > 1
            \/ calculate_averages_and_preselection(
                   get_all_ms2ds_scores(query_spectra)[n], preselection_cut_off,
                   sqlite_file.spectra_belonging_to_inchikey14s,
                   sqlite_file.closely_related_inchikey14s).status # "ok"
    THEN ids_of_collected_matches(query_spectra, preselection_cut_off, n - 1)
    ELSE Append(ids_of_collected_matches(query_spectra, preselection_cut_off, n - 1),
                calculate_averages_and_preselection(
                    get_all_ms2ds_scores(query_spectra)[n], preselection_cut_off,
                    sqlite_file.spectra_belonging_to_inchikey14s,
                    sqlite_file.closely_related_inchikey14s).value.selected_spectrum_ids)

\* The ids select_potential_true_matches hands to get_s2v_scores, one list
\* per query spectrum.
ids_of_potential_true_matches(query_spectra, mass_tolerance) ==
    [q \in DOMAIN query_spectra |->
        first_of_each(get_parent_mass_within_range(
            query_spectra[q].parent_mass - mass_tolerance,
            query_spectra[q].parent_mass + mass_tolerance))]

\* Lists of library spectrum ids a caller can hand to get_s2v_scores, ids
\* the library does not have among them.
PreselectionsOfLibraryIds ==
    UNION {[1..n -> SpectrumIds] : n \in 0..MaxLibrary}

\* get_s2v_scores called by a user of the library.
GetS2vScores ==
    /\ UNCHANGED <<file_system, agg, sqlite_file, ms2ds_embeddings, settings, argsort_kind>>
    /\ call = NoCall
    /\ \E query_spectrum \in QuerySpectra, preselection_of_library_ids \in PreselectionsOfLibraryIds :
          /\ call' = [op |-> "get_s2v_scores",
                      query_spectrum |-> query_spectrum,
                      preselection_of_library_ids |-> preselection_of_library_ids,
                      ret |-> get_s2v_scores(query_spectrum,
                                             preselection_of_library_ids)]
          /\ s2v_embeddings' = after_loc(s2v_embeddings, preselection_of_library_ids)

\* collect_matches_data_multiple_spectra, with what it leaves of self.
CollectMatchesDataOfLibrary ==
    /\ UNCHANGED <<file_system, agg, sqlite_file, ms2ds_embeddings, settings, argsort_kind>>
    /\ call = NoCall
    /\ \E query_spectra \in QueryLists, preselection_cut_off \in 1..MaxCutOff :
          /\ call' = [op |-> "collect_matches_data_multiple_spectra",
                      query_spectra |-> query_spectra,
                      preselection_cut_off |-> preselection_cut_off,
                      ret |-> collect_matches_data_multiple_spectra(
                                  query_spectra, preselection_cut_off)]
          /\ s2v_embeddings' =
                 after_get_s2v_scores(
                     s2v_embeddings,
                     ids_of_collected_matches(query_spectra, preselection_cut_off,
                                              Len(query_spectra)),
                     Len(ids_of_collected_matches(query_spectra, preselection_cut_off,
                                                  Len(query_spectra))))

\* select_best_matches, with what it leaves of self: the model prediction
\* works on the tables returned, not on self.
SelectBestMatchesOfLibrary ==
    /\ UNCHANGED <<file_system, agg, sqlite_file, ms2ds_embeddings, settings, argsort_kind>>
    /\ call = NoCall
    /\ \E query_spectra \in QueryLists, preselection_cut_off \in 1..MaxCutOff,
          ms2query_model_file_name \in Ms2queryModels :
          /\ call' = [op |-> "select_best_matches",
                      query_spectra |-> query_spectra,
                      ms2query_model_file_name |-> ms2query_model_file_name,
                      preselection_cut_off |-> preselection_cut_off,
                      ret |-> select_best_matches(query_spectra,
                                                  ms2query_model_file_name,
                                                  preselection_cut_off)]
          /\ s2v_embeddings' =
                 after_get_s2v_scores(
                     s2v_embeddings,
                     ids_of_collected_matches(query_spectra, preselection_cut_off,
                                              Len(query_spectra)),
                     Len(ids_of_collected_matches(query_spectra, preselection_cut_off,
                                                  Len(query_spectra))))

\* select_potential_true_matches, with what it leaves of self.
SelectPotentialTrueMatchesOfLibrary ==
    /\ UNCHANGED <<file_system, agg, sqlite_file, ms2ds_embeddings, settings, argsort_kind>>
    /\ call = NoCall
    /\ \E query_spectra \in QueryLists, mass_tolerance \in 0..MaxTolerance, s2v_score_threshold \in 0..MaxPeaks :
          /\ call' = [op |-> "select_potential_true_matches",
                      query_spectra |-> query_spectra,
                      mass_tolerance |-> mass_tolerance,
                      s2v_score_threshold |-> s2v_score_threshold,
                      ret |-> select_potential_true_matches(
                                  query_spectra, mass_tolerance, s2v_score_threshold)]
          /\ s2v_embeddings' =
                 after_get_s2v_scores(
                     s2v_embeddings,
                     ids_of_potential_true_matches(query_spectra, mass_tolerance),
                     Len(query_spectra))

\* The caller is done with what the query returned; the library stays.
ReturnFromQuery ==
    /\ UNCHANGED <<file_system, agg, library>>
    /\ call # NoCall
    /\ call' = NoCall

QueryNext ==
    \/ GetS2vScores
    \/ CollectMatchesDataOfLibrary
    \/ SelectBestMatchesOfLibrary
    \/ SelectPotentialTrueMatchesOfLibrary
    \/ ReturnFromQuery

SpecQueries == Init /\ [][QueryNext]_vars

TableAlone(q) ==
    collect_matches_data_multiple_spectra(<<call.query_spectra[q]>>,
                                          call.preselection_cut_off).value[1][2]

C22_TableInBatchIsTableAlone ==
    (/\ call # NoCall
     /\ call.op = "collect_matches_data_multiple_spectra"
     /\ LibraryIds # {}
     /\ EachAloneReturns) =>
        /\ call.ret.status = "ok"
        /\ \A q \in DOMAIN call.query_spectra :
              \E i \in DOMAIN call.ret.value :
                  /\ call.ret.value[i][1] = call.query_spectra[q].spectrumid
                  /\ call.ret.value[i][2] = TableAlone(q)

(***************************************************************************)
(* C24.  The preselection on the average score of the structures           *)
(* (sort_on_average_ms2ds=True) ranks the structures by the mean score of  *)
(* their spectra and selects the spectra of the top structures until N     *)
(* spectra are reached: the number of selected spectrum ids never exceeds  *)
(* N, the cut-off handed to preselect_best_matching_inchikeys.             *)
(***************************************************************************)
C24_AtMostNSpectrumIdsSelected ==
    agg.op = "preselect_best_matching_inchikeys" =>
        Len(agg.ret[2]) <= agg.top_nr_of_inchikeys

(***************************************************************************)
(* C26.  get_closely_related_scores never divides by zero: for every       *)
(* selected structure that the neighbour table lists it returns a defined  *)
(* triple, also when the structure has no neighbour (total number of       *)
(* spectra 0) and when every neighbour has structural similarity 0 (total  *)
(* weight 0).                                                              *)
(***************************************************************************)
C26_NoDivisionByZero ==
    agg.op = "get_closely_related_scores" =>
        /\ agg.ret.status # "ZeroDivisionError"
        /\ agg.ret.status = "ok" =>
               \A inchikey \in DOMAIN agg.ret.value :
                   /\ ~IsNaN(agg.ret.value[inchikey][1])
                   /\ ~IsNaN(agg.ret.value[inchikey][3])

\* a <= b as numbers.
FracLeq(a, b) == FracLess(a, b) \/ FracEq(a, b)

\* The neighbours of the selected structure S all have a structural
\* similarity above 0, and there is one at least.  (Their numbers of
\* spectra are positive: only structures with spectra have an average.)
NeighboursOfPositiveWeight(S) ==
    /\ agg.closest_related_inchikey14s[S] # <<>>
    /\ \A i \in DOMAIN agg.closest_related_inchikey14s[S] :
          agg.closest_related_inchikey14s[S][i][2] > 0

FeatureRows ==
    {[spectrum_id |-> spectrum_id,
      parent_mass_divided_by_1000 |-> Frac(1, 1000),
      mass_similarity |-> Frac(1, 2),
      s2v_score |-> Frac(1, 1),
      ms2ds_score |-> IF spectrum_id = "s1" THEN Frac(0, 1) ELSE Frac(1, 1),
      average_ms2ds_score_for_inchikey14 |-> Frac(1, 1),
      nr_of_spectra_with_same_inchikey14_divided_by_100 |-> Frac(1, 100),
      average_ms2ds_score_for_closely_related_inchikey14s |-> related,
      average_tanimoto_score_used_for_closely_related_score |-> Frac(1, 1),
      nr_of_spectra_for_closely_related_score_divided_by_100 |-> Frac(1, 100)] :
        spectrum_id \in {"s1", "s2"}, related \in {Frac(1, 1), NaN}}

\* The values of matches_info: a frame, or None.
FramesOrNone == {None} \cup UNION {[1..n -> FeatureRows] : n \in 0..MaxCutOff}

\* matches_info: a dict with the query spectrum ids as keys.
MatchesInfos ==
    {<<<<"q1", first>>>> : first \in FramesOrNone}
        \cup {<<<<"q1", first>>, <<"q2", second>>>> :
                 first \in FramesOrNone, second \in FramesOrNone}

PredictionInit ==
    /\ NoFiles
    /\ call = NoCall
    /\ sqlite_file = <<>>
    /\ ms2ds_embeddings = <<>>
    /\ s2v_embeddings = <<>>
    /\ settings = <<>>
    /\ argsort_kind \in ArgsortKinds
    /\ \E matches_info \in MatchesInfos, ms2query_model_file_name \in Ms2queryModels :
          agg = [op |-> "args",
                 matches_info |-> matches_info,
                 ms2query_model_file_name |-> ms2query_model_file_name]

GetMs2queryModelPrediction ==
    /\ UNCHANGED <<file_system, library, call>>
    /\ agg.op = "args"
    /\ agg' = [op |-> "get_ms2query_model_prediction",
               matches_info |-> agg.matches_info,
               ms2query_model_file_name |-> agg.ms2query_model_file_name,
               ret |-> get_ms2query_model_prediction(agg.matches_info,
                                                     agg.ms2query_model_file_name)]

SpecPrediction == PredictionInit /\ [][GetMs2queryModelPrediction]_vars

\* The rows of the frame after are the rows of the frame before in some
\* order, each with its columns as they were and the one column more.
SameRowsWithPrediction(before, after) ==
    /\ Len(after) = Len(before)
    /\ \E order \in [DOMAIN after -> DOMAIN before] :
          /\ \A r1, r2 \in DOMAIN after : r1 # r2 => order[r1] # order[r2]
          /\ \A r \in DOMAIN after :
                /\ DOMAIN after[r] = DOMAIN before[order[r]] \cup {"ms2query_model_prediction"}
                /\ [column \in DOMAIN before[order[r]] |-> after[r][column]]
                       = before[order[r]]

(***************************************************************************)
(* C29.  get_ms2query_model_prediction changes nothing but the prediction  *)
(* column and the order of the rows: the result has the keys of the input; *)
(* for a key whose frame is not None the frame returned has the same rows  *)
(* (none added, none dropped, in some order) with every feature value      *)
(* unchanged and the one column ms2query_model_prediction added; a key     *)
(* that has None keeps None.                                               *)
(***************************************************************************)
C29_OnlyPredictionColumnAndRowOrderChange ==
    (agg.op = "get_ms2query_model_prediction" /\ agg.ret.status = "ok") =>
        /\ Len(agg.ret.value) = Len(agg.matches_info)
        /\ \A i \in DOMAIN agg.matches_info :
              /\ agg.ret.value[i][1] = agg.matches_info[i][1]
              /\ IF agg.matches_info[i][2] = None
                 THEN agg.ret.value[i][2] = None
                 ELSE /\ agg.ret.value[i][2] # None
                      /\ SameRowsWithPrediction(agg.matches_info[i][2],
                                                agg.ret.value[i][2])

\* The call returned for a dict with None for one key and for the other a
\* frame of two rows, which are returned in the other order, the row
\* without a prediction last.
C29_Witness ==
    /\ agg.op = "get_ms2query_model_prediction"
    /\ agg.ret.status = "ok"
    /\ Len(agg.matches_info) = 2
    /\ agg.matches_info[1][2] = None
    /\ agg.matches_info[2][2] # None
    /\ Len(agg.matches_info[2][2]) = 2
    /\ agg.ret.value[2][2][1].spectrum_id = agg.matches_info[2][2][2].spectrum_id
    /\ agg.ret.value[2][2][1].spectrum_id # agg.matches_info[2][2][1].spectrum_id
    /\ IsNaN(agg.ret.value[2][2][2].ms2query_model_prediction)

(***************************************************************************)
(* The mass similarity as Python computes it: in double precision.         *)
(*                                                                         *)
(* With base_nr_mass_similarity = 0.5 and a whole-number exponent the      *)
(* double is known exactly: 0.5 ** n is the power of two 2^-n down to the  *)
(* smallest subnormal, 2^-1074, and 0.0 from n = 1075 on. A double is kept *)
(* as [kind |-> "power_of_two", exponent |-> n] for 2^-n, or as            *)
(* [kind |-> "zero"].                                                      *)
(***************************************************************************)
SmallestSubnormalExponent == 1074

\* 0.5 ** exponent for a whole number exponent >= 0.
float_half_to_the_power(exponent) ==
    IF exponent > SmallestSubnormalExponent THEN [kind |-> "zero"]
    ELSE [kind |-> "power_of_two", exponent |-> exponent]

\* a > b on these doubles.
FloatGreater(a, b) ==
    /\ a.kind = "power_of_two"
    /\ b.kind = "zero" \/ a.exponent < b.exponent

FloatOne == [kind |-> "power_of_two", exponent |-> 0]

\* Faulty variant: the sign of the difference is kept, a negative power of
\* 0.5 being at least 1 (here: 1).
float_mass_similarity_signed(difference) ==
    float_half_to_the_power(IF difference < 0 THEN 0 ELSE difference)

\* base_nr_mass_similarity ** abs(all_parent_masses[spectrum_id]
\*                                - query_spectrum_parent_mass)
\* for the base 0.5 and a whole-number difference of the two masses.
float_mass_similarity(difference) ==
    float_half_to_the_power(Abs(difference))

\* The mass differences looked at: the small ones and the ones around the
\* difference at which the result underflows.
MaxDifference == 3

Differences ==
    {d \in (0 - SmallestSubnormalExponent - 1 - MaxDifference)
              ..(SmallestSubnormalExponent + 1 + MaxDifference) :
        \/ Abs(d) <= MaxDifference
        \/ Abs(Abs(d) - SmallestSubnormalExponent - 1) <= MaxDifference}

MassSimInit ==
    /\ NoFiles
    /\ sqlite_file = <<>>
    /\ ms2ds_embeddings = <<>>
    /\ s2v_embeddings = <<>>
    /\ argsort_kind = "stable"
    /\ agg = NoCall
    /\ settings = [default_settings EXCEPT !.base_nr_mass_similarity = <<1, 2>>]
    /\ \E d1 \in Differences, d2 \in Differences :
          call = [op |-> "args", d1 |-> d1, d2 |-> d2]

\* The mass similarity of two candidates of one query spectrum.
MassSimilarity ==
    /\ UNCHANGED <<file_system, library, agg>>
    /\ call.op = "args"
    /\ call' = [op |-> "mass_similarity", d1 |-> call.d1, d2 |-> call.d2,
                ret1 |-> float_mass_similarity(call.d1),
                ret2 |-> float_mass_similarity(call.d2)]

MassSimNext == MassSimilarity

SpecMassSim == MassSimInit /\ [][MassSimNext]_vars

MaxSupplied == 2
MaxObjects == 2

Str(repr) == [type |-> "str", repr |-> repr]

Float(repr) == [type |-> "float", repr |-> repr]

Bool(repr) == [type |-> "bool", repr |-> repr]

MS2Library_default_settings ==
    [spectrum_id_column_name |-> Str("spectrumid"),
     cosine_score_tolerance |-> Float("0.1"),
     base_nr_mass_similarity |-> Float("0.8"),
     progress_bars |-> Bool("True")]

CreateFilesForLibrary_default_settings ==
    [new_sqlite_file_name |-> Str(""),
     new_ms2ds_embeddings_file_name |-> Str(""),
     new_s2v_embeddings_file_name |-> Str(""),
     progress_bars |-> Bool("True"),
     spectrum_id_column_name |-> Str("spectrumid")]

\* Faulty variant: the dictionary of defaults is one object that all calls
\* update, so a call starts from the settings the call before it left.
default_settings_kept_between_calls(literal, earlier_settings) ==
    IF earlier_settings = <<>> THEN literal
    ELSE earlier_settings[Len(earlier_settings)]

\* default_settings = {...}: each call builds a new dictionary from the literal.
default_settings_of_call(literal, earlier_settings) == literal

\* Both asserts of the loop hold for the attribute.
setting_accepted(new_settings, defaults, attribute) ==
    /\ attribute \in DOMAIN defaults
    /\ new_settings[attribute].type = defaults[attribute].type

\* default_settings[attribute] = new_settings[attribute], for every attribute.
settings_updated(new_settings, defaults) ==
    [attribute \in DOMAIN defaults \cup DOMAIN new_settings |->
        IF attribute \in DOMAIN new_settings THEN new_settings[attribute]
        ELSE defaults[attribute]]

\* Faulty variant: the loop without its two asserts.
set_settings_without_asserts(new_settings, defaults) ==
    Ok(settings_updated(new_settings, defaults))

\* The loop over new_settings that both _set_settings methods start with.
set_settings_loop(new_settings, defaults) ==
    IF \A attribute \in DOMAIN new_settings :
           setting_accepted(new_settings, defaults, attribute)
    THEN Ok(settings_updated(new_settings, defaults))
    ELSE Raise("AssertionError")

MS2Library_set_settings(new_settings, earlier_settings) ==
    set_settings_loop(new_settings,
        default_settings_of_call(MS2Library_default_settings, earlier_settings))

\* The files MS2Library.__init__ loads, in the order it loads them.
MS2LibraryLoads ==
    <<"s2v_model_file_name", "ms2ds_model_file_name",
      "pickled_s2v_embeddings_file_name", "pickled_ms2ds_embeddings_file_name">>

\* __init__ after self.settings has been computed: loaded is the list of the
\* files it has read when it returns or raises.
MS2Library_after_settings(settings_result, new_settings, first_unreadable) ==
    IF settings_result.status # "ok"
    THEN [ret |-> settings_result, loaded |-> <<>>]
    ELSE IF first_unreadable \in DOMAIN MS2LibraryLoads
    THEN [ret |-> Raise("FileNotFoundError"),
          loaded |-> SubSeq(MS2LibraryLoads, 1, first_unreadable - 1)]
    ELSE [ret |-> Ok([class |-> "MS2Library",
                      new_settings |-> new_settings,
                      settings |-> settings_result.value]),
          loaded |-> MS2LibraryLoads]

MS2Library_init(new_settings, first_unreadable, earlier_settings) ==
    MS2Library_after_settings(
        MS2Library_set_settings(new_settings, earlier_settings),
        new_settings, first_unreadable)

\* A file name is its stem and its last seven characters.
PickledSpectraFileNames ==
    {[stem |-> "spectra", last_seven |-> ".pickle"],
     [stem |-> "spectra_pickle", last_seven |-> "ra.json"]}

\* The three file names made from the name of the pickled spectra file.
default_file_names(base_file_name) ==
    [new_sqlite_file_name |-> Str(base_file_name \o ".sqlite"),
     new_ms2ds_embeddings_file_name |-> Str(base_file_name \o "_ms2ds_embeddings.pickle"),
     new_s2v_embeddings_file_name |-> Str(base_file_name \o "_s2v_embeddings.pickle")]

\* Empty new file names are replaced with default file names.
with_default_file_names(updated, file_names) ==
    [attribute \in DOMAIN updated |->
        IF attribute \in DOMAIN file_names /\ updated[attribute] = Str("")
        THEN file_names[attribute] ELSE updated[attribute]]

CreateFilesForLibrary_after_loop(loop_result, pickled_spectra_file_name) ==
    IF loop_result.status # "ok" THEN loop_result
    ELSE IF pickled_spectra_file_name.last_seven # ".pickle" THEN Raise("AssertionError")
    ELSE Ok(with_default_file_names(loop_result.value,
                default_file_names(pickled_spectra_file_name.stem)))

CreateFilesForLibrary_set_settings(new_settings, pickled_spectra_file_name, earlier_settings) ==
    CreateFilesForLibrary_after_loop(
        set_settings_loop(new_settings,
            default_settings_of_call(CreateFilesForLibrary_default_settings,
                                     earlier_settings)),
        pickled_spectra_file_name)

\* What load_pickled_file can find under the name of the pickled spectra:
\* no file, an empty list, or spectra with "spectrumid" in their metadata.
PickledSpectraFiles == {"unreadable", "no spectra", "spectra with spectrumid"}

\* load_spectra_and_minimal_processing, as far as it can fail.
load_spectra(pickled, spectrum_id_column_name) ==
    IF pickled = "unreadable" THEN [ret |-> Raise("FileNotFoundError"), loaded |-> <<>>]
    ELSE IF pickled = "no spectra"
    THEN [ret |-> Raise("IndexError"), loaded |-> <<"pickled_spectra_file_name">>]
    ELSE IF spectrum_id_column_name # Str("spectrumid")
    THEN [ret |-> Raise("AssertionError"), loaded |-> <<"pickled_spectra_file_name">>]
    ELSE [ret |-> Ok(pickled), loaded |-> <<"pickled_spectra_file_name">>]

CreateFilesForLibrary_after_loading(settings_value, load_result, new_settings, pickled_spectra_file_name) ==
    IF load_result.ret.status # "ok" THEN load_result
    ELSE [ret |-> Ok([class |-> "CreateFilesForLibrary",
                      new_settings |-> new_settings,
                      pickled_spectra_file_name |-> pickled_spectra_file_name,
                      settings |-> settings_value]),
          loaded |-> load_result.loaded]

CreateFilesForLibrary_after_settings(settings_result, new_settings, pickled_spectra_file_name, pickled) ==
    IF settings_result.status # "ok"
    THEN [ret |-> settings_result, loaded |-> <<>>]
    ELSE CreateFilesForLibrary_after_loading(settings_result.value,
             load_spectra(pickled, settings_result.value.spectrum_id_column_name),
             new_settings, pickled_spectra_file_name)

CreateFilesForLibrary_init(pickled_spectra_file_name, new_settings, pickled, earlier_settings) ==
    CreateFilesForLibrary_after_settings(
        CreateFilesForLibrary_set_settings(new_settings, pickled_spectra_file_name,
                                           earlier_settings),
        new_settings, pickled_spectra_file_name, pickled)

\* The values and names a caller passes as settings.
SettingValues == {Str("test_value"), Str(""), Float("0.2"), Bool("False")}

SettingNames ==
    DOMAIN MS2Library_default_settings
        \cup DOMAIN CreateFilesForLibrary_default_settings
        \cup {"not_recognized_attribute"}

NewSettings ==
    UNION {[supplied -> SettingValues] :
               supplied \in {S \in SUBSET SettingNames : Cardinality(S) <= MaxSupplied}}

\* The settings of the objects of a class constructed so far.
RECURSIVE settings_of_class(_, _)
settings_of_class(constructed, class) ==
    IF constructed = <<>> THEN <<>>
    ELSE LET earlier == settings_of_class(SubSeq(constructed, 1, Len(constructed) - 1), class)
             last == constructed[Len(constructed)]
         IN IF last.class = class THEN Append(earlier, last.settings) ELSE earlier

\* objects after a constructor call: a constructor that raises leaves none.
constructed_by(result) ==
    IF result.ret.status = "ok" THEN Append(objects, result.ret.value) ELSE objects

SettingsInit ==
    /\ NoLibrary
    /\ NoFiles
    /\ agg = NoCall

ConstructMS2Library ==
    /\ call = NoCall
    /\ Len(objects) < MaxObjects
    /\ \E new_settings \in NewSettings, first_unreadable \in 0..Len(MS2LibraryLoads) :
          LET result == MS2Library_init(new_settings, first_unreadable,
                            settings_of_class(objects, "MS2Library"))
          IN /\ call' = [op |-> "MS2Library", new_settings |-> new_settings,
                         ret |-> result.ret, loaded |-> result.loaded]
             /\ objects' = constructed_by(result)
    /\ UNCHANGED <<library, agg, files>>

ConstructCreateFilesForLibrary ==
    /\ call = NoCall
    /\ Len(objects) < MaxObjects
    /\ \E new_settings \in NewSettings, name \in PickledSpectraFileNames, pickled \in PickledSpectraFiles :
          LET result == CreateFilesForLibrary_init(name, new_settings, pickled,
                            settings_of_class(objects, "CreateFilesForLibrary"))
          IN /\ call' = [op |-> "CreateFilesForLibrary", new_settings |-> new_settings,
                         pickled_spectra_file_name |-> name,
                         ret |-> result.ret, loaded |-> result.loaded]
             /\ objects' = constructed_by(result)
    /\ UNCHANGED <<library, agg, files>>

\* The caller goes on after a constructor returned or raised.
Constructed ==
    /\ call # NoCall
    /\ call' = NoCall
    /\ UNCHANGED <<file_system, library, agg>>

SettingsNext == ConstructMS2Library \/ ConstructCreateFilesForLibrary \/ Constructed

SpecSettings == SettingsInit /\ [][SettingsNext]_vars

\* The defaults the documentation of a constructor gives for its settings.
DocumentedDefaults(object) ==
    IF object.class = "MS2Library" THEN MS2Library_default_settings
    ELSE [attribute \in DOMAIN CreateFilesForLibrary_default_settings |->
             IF attribute \in DOMAIN default_file_names("")
             THEN default_file_names(object.pickled_spectra_file_name.stem)[attribute]
             ELSE CreateFilesForLibrary_default_settings[attribute]]

\* The literal defaults of the class a constructor call is of.
LiteralDefaults(class) ==
    IF class = "MS2Library" THEN MS2Library_default_settings
    ELSE CreateFilesForLibrary_default_settings

\* A constructor call was given a setting with an unknown name or a value
\* of another type than the default of that setting.
SomeSettingInvalid(constructor_call) ==
    \E attribute \in DOMAIN constructor_call.new_settings :
        \/ attribute \notin DOMAIN LiteralDefaults(constructor_call.op)
        \/ constructor_call.new_settings[attribute].type
               # LiteralDefaults(constructor_call.op)[attribute].type

(***************************************************************************)
(* C13.  A constructor of MS2Library or CreateFilesForLibrary that is      *)
(* given an unknown setting name, or a value of another type than the      *)
(* default, raises an error before it has loaded any file, and constructs  *)
(* no object.                                                              *)
(***************************************************************************)
C13_InvalidSettingsFailBeforeLoading ==
    [][(/\ call = NoCall
        /\ call' # NoCall
        /\ SomeSettingInvalid(call'))
           => /\ call'.ret.status = "AssertionError"
              /\ call'.loaded = <<>>
              /\ objects' = objects]_vars

\* A constructor has refused its settings, for a value of the wrong type or
\* for an unknown name, after another object had been constructed.
C13_Witness ==
    /\ call # NoCall
    /\ Len(objects) = 1
    /\ SomeSettingInvalid(call)
    /\ call.ret.status = "AssertionError"
    /\ call.loaded = <<>>
    /\ \/ /\ call.op = "MS2Library"
          /\ DOMAIN call.new_settings = {"cosine_score_tolerance"}
          /\ call.new_settings["cosine_score_tolerance"] = Str("test_value")
       \/ /\ call.op = "CreateFilesForLibrary"
          /\ DOMAIN call.new_settings = {"not_recognized_attribute"}

\* An empty file name given to CreateFilesForLibrary.
IsEmptyFileName(object, attribute) ==
    /\ object.class = "CreateFilesForLibrary"
    /\ attribute \in DOMAIN default_file_names("")
    /\ object.new_settings[attribute] = Str("")

(***************************************************************************)
(* C14.  As the claim states it: every constructed object has exactly the  *)
(* default keys in its settings, every supplied setting has the supplied   *)
(* value and every other setting its default, whatever other objects were  *)
(* constructed before or after it.                                         *)
(***************************************************************************)
C14_SuppliedValuesAndDefaults ==
    \A i \in DOMAIN objects :
        /\ DOMAIN objects[i].settings = DOMAIN DocumentedDefaults(objects[i])
        /\ \A attribute \in DOMAIN objects[i].settings :
               objects[i].settings[attribute] =
                   IF attribute \in DOMAIN objects[i].new_settings
                   THEN objects[i].new_settings[attribute]
                   ELSE DocumentedDefaults(objects[i])[attribute]

(***************************************************************************)
(* C14, as the code has it: the same, except that an empty file name       *)
(* supplied to CreateFilesForLibrary is replaced by the default file name. *)
(***************************************************************************)
C14_SuppliedValuesExceptEmptyFileNames ==
    \A i \in DOMAIN objects :
        /\ DOMAIN objects[i].settings = DOMAIN DocumentedDefaults(objects[i])
        /\ \A attribute \in DOMAIN objects[i].settings :
               objects[i].settings[attribute] =
                   IF /\ attribute \in DOMAIN objects[i].new_settings
                      /\ ~IsEmptyFileName(objects[i], attribute)
                   THEN objects[i].new_settings[attribute]
                   ELSE DocumentedDefaults(objects[i])[attribute]

\* Two MS2Library objects: the first was given cosine_score_tolerance 0.2,
\* the second was not and has the default 0.1.
C14_Witness ==
    /\ Len(objects) = 2
    /\ objects[1].class = "MS2Library"
    /\ objects[2].class = "MS2Library"
    /\ DOMAIN objects[1].new_settings = {"cosine_score_tolerance"}
    /\ objects[1].settings.cosine_score_tolerance = Float("0.2")
    /\ objects[1].settings.base_nr_mass_similarity = Float("0.8")
    /\ "cosine_score_tolerance" \notin DOMAIN objects[2].new_settings
    /\ objects[2].settings.cosine_score_tolerance = Float("0.1")

(***************************************************************************)
(* Creation of the library files by a CreateFilesForLibrary object.  files *)
(* maps the name of every existing file to its content.  A frame is its    *)
(* rows in order; a row of the ms2ds store is the spectrum id, the values  *)
(* read from the csv file and the number of cells filled with NaN after    *)
(* them.                                                                   *)
(***************************************************************************)
NrOfNames == 400

\* The length of the vectors of the ms2ds model in use (200 is the default
\* of ms2deepscore, 400 that of the model of the tests).
EmbeddingDimensions == {200, NrOfNames - 1, NrOfNames}

temporary_csv_file_name == "temporary_embeddings_file.csv"

\* Faulty variant: a check for existence that never finds the file.
path_never_exists(fs, file_name) == FALSE

\* os.path.exists
path_exists(fs, file_name) == file_name \in DOMAIN fs

\* Writing a file: creates it, or replaces the content it had.
written(fs, file_name, content) ==
    [name \in DOMAIN fs \cup {file_name} |->
        IF name = file_name THEN content ELSE fs[name]]

\* model.base.predict: the vector of a spectrum, of the length of the model.
ms2ds_embedding(spectrum, dimension) ==
    [i \in 1..dimension |-> ms2ds_vector(spectrum.peaks)]

\* The csv file after every spectrum's line has been appended to it.
csv_lines(list_of_spectra, dimension) ==
    [i \in DOMAIN list_of_spectra |->
        <<list_of_spectra[i].spectrumid>> \o ms2ds_embedding(list_of_spectra[i], dimension)]

\* pd.read_csv(header=None, index_col=0, names=list(range(400))) of lines
\* that all have the same number of fields.  With more names than fields
\* the missing cells are NaN and the first name labels the index; with one
\* field more than names the first field is the index without a name.
read_csv(lines, nr_of_names) ==
    [kind |-> "frame",
     first_column |-> IF Len(lines[1]) <= nr_of_names THEN 1 ELSE 0,
     rows |-> [i \in DOMAIN lines |->
                  [spectrumid |-> lines[i][1],
                   values |-> Tail(lines[i]),
                   nr_of_nan |-> IF Len(lines[i]) <= nr_of_names
                                 THEN nr_of_names - Len(lines[i]) ELSE 0]]]

store_ms2ds_embeddings(fs, creator, dimension) ==
    IF \/ path_exists(fs, creator.settings.new_ms2ds_embeddings_file_name.repr)
       \/ path_exists(fs, temporary_csv_file_name)
    THEN [ret |-> Raise("AssertionError"), files |-> fs]
    ELSE IF creator.list_of_spectra = <<>>
    THEN [ret |-> Raise("FileNotFoundError"), files |-> fs]
    ELSE [ret |-> Ok("None"),
          files |-> written(fs, creator.settings.new_ms2ds_embeddings_file_name.repr,
                            read_csv(csv_lines(creator.list_of_spectra, dimension),
                                     NrOfNames))]

\* embeddings_dict[spectrum_id] = embedding for every spectrum in turn: a key
\* stays where it was first inserted and has the value assigned last.
RECURSIVE embeddings_dict(_)
embeddings_dict(list_of_spectra) ==
    IF list_of_spectra = <<>> THEN <<>>
    ELSE LET last == list_of_spectra[Len(list_of_spectra)]
         IN dict_set(embeddings_dict(SubSeq(list_of_spectra, 1, Len(list_of_spectra) - 1)),
                     last.spectrumid, s2v_vector(last.peaks))

store_s2v_embeddings(fs, creator) ==
    IF path_exists(fs, creator.settings.new_s2v_embeddings_file_name.repr)
    THEN [ret |-> Raise("AssertionError"), files |-> fs]
    ELSE [ret |-> Ok("None"),
          files |-> written(fs, creator.settings.new_s2v_embeddings_file_name.repr,
                            [kind |-> "frame",
                             rows |-> embeddings_dict(creator.list_of_spectra)])]

\* make_sqlfile_wrapper: makes the sqlite file with the data of the spectra.
make_sqlfile_wrapper(fs, sqlite_file_name, list_of_spectra) ==
    written(fs, sqlite_file_name, [kind |-> "sqlite", spectra |-> list_of_spectra])

\* create_all_library_files from the call of store_s2v_embeddings on.
create_embeddings_files(s2v_result, creator, dimension) ==
    IF s2v_result.ret.status # "ok" THEN s2v_result
    ELSE store_ms2ds_embeddings(s2v_result.files, creator, dimension)

create_all_library_files(fs, creator, dimension) ==
    IF \/ path_exists(fs, creator.settings.new_sqlite_file_name.repr)
       \/ path_exists(fs, creator.settings.new_ms2ds_embeddings_file_name.repr)
       \/ path_exists(fs, creator.settings.new_s2v_embeddings_file_name.repr)
    THEN [ret |-> Raise("AssertionError"), files |-> fs]
    ELSE create_embeddings_files(
             store_s2v_embeddings(
                 make_sqlfile_wrapper(fs, creator.settings.new_sqlite_file_name.repr,
                                      creator.list_of_spectra),
                 creator),
             creator, dimension)

\* The spectra of the pickled file, after minimal processing.
ListsOfSpectra ==
    UNION {[1..n -> [spectrumid : {"s1", "s2"}, peaks : 0..MaxPeaks]] : n \in 0..MaxLibrary}

\* A file that was there before, as the test writes it.
ExistingFile == [kind |-> "text", content |-> "test"]

\* The object made by CreateFilesForLibrary("spectra.pickle").
Creator(list_of_spectra) ==
    [class |-> "CreateFilesForLibrary",
     settings |-> CreateFilesForLibrary_set_settings(<<>>,
                      [stem |-> "spectra", last_seven |-> ".pickle"], <<>>).value,
     list_of_spectra |-> list_of_spectra]

CreationInit ==
    /\ NoLibrary
    /\ agg = NoCall
    /\ \E list_of_spectra \in ListsOfSpectra : objects = <<Creator(list_of_spectra)>>
    /\ \E existing \in SUBSET {"spectra.sqlite", "spectra_ms2ds_embeddings.pickle",
                               "spectra_s2v_embeddings.pickle", temporary_csv_file_name} :
          files = [name \in existing |-> ExistingFile]

\* A call of a method of the object: its result, and the files it leaves.
Called(op, dimension, result) ==
    /\ call' = [op |-> op, dimension |-> dimension, ret |-> result.ret]
    /\ files' = result.files
    /\ UNCHANGED <<objects, library, agg>>

CreateAllLibraryFiles ==
    \E dimension \in EmbeddingDimensions :
        Called("create_all_library_files", dimension,
               create_all_library_files(files, objects[1], dimension))

StoreMs2dsEmbeddings ==
    \E dimension \in EmbeddingDimensions :
        Called("store_ms2ds_embeddings", dimension,
               store_ms2ds_embeddings(files, objects[1], dimension))

StoreS2vEmbeddings ==
    Called("store_s2v_embeddings", 0, store_s2v_embeddings(files, objects[1]))

CreationNext == CreateAllLibraryFiles \/ StoreMs2dsEmbeddings \/ StoreS2vEmbeddings

SpecCreation == CreationInit /\ [][CreationNext]_vars

\* The name of the ms2ds store the object writes.
Ms2dsStoreName == objects[1].settings.new_ms2ds_embeddings_file_name.repr

(***************************************************************************)
(* C17.  A vector of another length than the 400 columns of the ms2ds      *)
(* store is never padded or truncated into the store: every row of a       *)
(* written store is a whole vector, without cells filled in.               *)
(***************************************************************************)
C17_NoVectorPaddedIntoTheStore ==
    (/\ call # NoCall
     /\ Ms2dsStoreName \in DOMAIN files
     /\ files[Ms2dsStoreName] # ExistingFile)
        => \A i \in DOMAIN files[Ms2dsStoreName].rows :
               /\ files[Ms2dsStoreName].rows[i].nr_of_nan = 0
               /\ Len(files[Ms2dsStoreName].rows[i].values) \in EmbeddingDimensions

\* The files a call overwrites if it does not check for them.
TargetsOf(op) ==
    IF op = "store_s2v_embeddings"
    THEN {objects[1].settings.new_s2v_embeddings_file_name.repr}
    ELSE IF op = "store_ms2ds_embeddings" THEN {Ms2dsStoreName}
    ELSE {objects[1].settings.new_sqlite_file_name.repr, Ms2dsStoreName,
          objects[1].settings.new_s2v_embeddings_file_name.repr}

(***************************************************************************)
(* C19.  A call that creates library files, made while one of the files    *)
(* it is to create exists, fails with an AssertionError and leaves every   *)
(* file as it was: none is created, none is changed.                       *)
(***************************************************************************)
C19_ExistingFilesAreNotOverwritten ==
    [][(TargetsOf(call'.op) \cap DOMAIN files # {})
          => /\ call'.ret.status = "AssertionError"
             /\ files' = files]_vars

\* create_all_library_files has failed on an sqlite file that was there
\* before: the file is as it was and the two stores have not been made.
C19_Witness ==
    /\ call # NoCall
    /\ call.op = "create_all_library_files"
    /\ call.ret.status = "AssertionError"
    /\ objects[1].list_of_spectra # <<>>
    /\ DOMAIN files = {objects[1].settings.new_sqlite_file_name.repr}
    /\ files[objects[1].settings.new_sqlite_file_name.repr] = ExistingFile

(***************************************************************************)
(* The spectra table of sqlite.py.  A spectrum of the json file is a dict  *)
(* with its spectrum id and one more metadata value; a text is the         *)
(* sequence of its pieces, the quotes around a string being pieces of      *)
(* their own.                                                              *)
(***************************************************************************)
\* The values json.load gives the metadata: a string without quotes in it,
\* a string with an apostrophe, a number, and NaN.
JsonValues == {Str("adduct"), Str("3'-hydroxy"), Float("1.5"), Float("nan")}

JsonSpectra ==
    UNION {[1..n -> [spectrum_id : {"s1", "s2"}, metadata : JsonValues]] : n \in 0..MaxLibrary}

\* repr() of a metadata value: a string is put in single quotes, or in
\* double quotes when it has an apostrophe in it.
python_repr(value) ==
    IF value.type # "str" THEN <<value.repr>>
    ELSE IF value.repr = "3'-hydroxy" THEN <<"\"", value.repr, "\"">>
    ELSE <<"'", value.repr, "'">>

\* f'"{spectrum}"' without its outer double quotes: the repr of the dict.
full_json_of(spectrum) ==
    <<"{'spectrum_id': '", spectrum.spectrum_id, "', 'metadata': ">>
        \o python_repr(spectrum.metadata) \o <<"}">>

\* ast.literal_eval of a text made by full_json_of.
literal_eval(full_json) ==
    IF Len(full_json) = 7
    THEN Ok([spectrum_id |-> full_json[2], metadata |-> Str(full_json[5])])
    ELSE IF full_json[4] \in {"nan", "inf", "-inf"} THEN Raise("ValueError")
    ELSE Ok([spectrum_id |-> full_json[2], metadata |-> Float(full_json[4])])

\* The INSERT of one spectrum and its commit.  A double quote in the text
\* ends the double-quoted SQL string early, and a spectrum id that is in the
\* table violates the primary key.
insert_spectrum(rows, spectrum) ==
    IF \E i \in DOMAIN full_json_of(spectrum) : full_json_of(spectrum)[i] = "\""
    THEN [ret |-> Raise("OperationalError"), rows |-> rows]
    ELSE IF \E i \in DOMAIN rows : rows[i].spectrum_id = spectrum.spectrum_id
    THEN [ret |-> Raise("IntegrityError"), rows |-> rows]
    ELSE [ret |-> Ok("None"),
          rows |-> Append(rows, [spectrum_id |-> spectrum.spectrum_id,
                                 full_json |-> full_json_of(spectrum)])]

\* add_spectra_to_database: the loop from the n-th spectrum on, every
\* inserted spectrum being committed before the next.
RECURSIVE add_spectra_to_database(_, _, _)
add_spectra_to_database(inserted, spectra, n) ==
    IF inserted.ret.status # "ok" \/ n > Len(spectra) THEN inserted
    ELSE add_spectra_to_database(insert_spectrum(inserted.rows, spectra[n]), spectra, n + 1)

\* The list of dicts made from the texts of the selected rows, or the first
\* exception of literal_eval.
evaluated(selected) ==
    IF \E i \in DOMAIN selected : literal_eval(selected[i].full_json).status # "ok"
    THEN Raise("ValueError")
    ELSE Ok([i \in DOMAIN selected |-> literal_eval(selected[i].full_json).value])

\* get_spectra_from_sqlite: SELECT full_json ... WHERE spectrum_id IN (...),
\* the rows coming in the order of the table.
get_spectra_from_sqlite(rows, spectrum_id_list) ==
    evaluated(SelectSeq(rows, LAMBDA row : row.spectrum_id \in spectrum_id_list))

\* The table spectra has just been created by create_table_structure, and
\* the json file has some spectra.
SqliteInit ==
    /\ NoLibrary
    /\ agg = NoCall
    /\ objects = <<>>
    /\ \E spectra \in JsonSpectra :
          files = [name \in {"spectra.json", "spectra.sqlite"} |->
                      IF name = "spectra.json" THEN [kind |-> "json", spectra |-> spectra]
                      ELSE [kind |-> "sqlite", rows |-> <<>>]]

AddSpectraToDatabase ==
    LET added == add_spectra_to_database(
                     [ret |-> Ok("None"), rows |-> files["spectra.sqlite"].rows],
                     files["spectra.json"].spectra, 1)
    IN /\ call' = [op |-> "add_spectra_to_database", ret |-> added.ret]
       /\ files' = [files EXCEPT !["spectra.sqlite"].rows = added.rows]
       /\ UNCHANGED <<objects, library, agg>>

GetSpectraFromSqlite ==
    /\ \E spectrum_id_list \in SUBSET SpectrumIds :
          call' = [op |-> "get_spectra_from_sqlite",
                   spectrum_id_list |-> spectrum_id_list,
                   ret |-> get_spectra_from_sqlite(files["spectra.sqlite"].rows,
                                                   spectrum_id_list)]
    /\ UNCHANGED <<file_system, library, agg>>

SqliteNext == AddSpectraToDatabase \/ GetSpectraFromSqlite

SpecSqlite == SqliteInit /\ [][SqliteNext]_vars

\* The spectra of the json file that are in the table.
StoredSpectra ==
    {files["spectra.json"].spectra[i] : i \in
        {j \in DOMAIN files["spectra.json"].spectra :
            \E r \in DOMAIN files["spectra.sqlite"].rows :
                /\ files["spectra.sqlite"].rows[r].spectrum_id
                       = files["spectra.json"].spectra[j].spectrum_id
                /\ \A earlier \in 1..(j - 1) :
                       files["spectra.json"].spectra[earlier].spectrum_id
                           # files["spectra.json"].spectra[j].spectrum_id}}

(***************************************************************************)
(* C20.  After spectra have been stored, get_spectra_from_sqlite returns   *)
(* a list with one spectrum for every requested id that is stored, each    *)
(* equal to the spectrum stored under that id, and nothing else.           *)
(***************************************************************************)
C20_StoredSpectraAreReturned ==
    (call # NoCall /\ call.op = "get_spectra_from_sqlite") =>
        /\ call.ret.status = "ok"
        /\ {call.ret.value[i] : i \in DOMAIN call.ret.value}
               = {spectrum \in StoredSpectra : spectrum.spectrum_id \in call.spectrum_id_list}
        /\ Len(call.ret.value)
               = Cardinality({spectrum \in StoredSpectra :
                                 spectrum.spectrum_id \in call.spectrum_id_list})

\* The number of rows of a store that carry the spectrum id.
NrOfVectors(store, spectrum_id) ==
    Cardinality({i \in DOMAIN store.rows :
                    (IF store.kind = "frame" /\ "first_column" \in DOMAIN store
                     THEN store.rows[i].spectrumid
                     ELSE store.rows[i][1]) = spectrum_id})

\* The spectrum ids of the spectra in the sqlite file the object wrote.
SqliteSpectrumIds ==
    LET spectra == files[objects[1].settings.new_sqlite_file_name.repr].spectra
    IN {spectra[i].spectrumid : i \in DOMAIN spectra}

scaled_mass_sim_of_docstring(base_num, lib_mass, query_mass) ==
    Frac(Power(base_num[2], Abs(lib_mass - query_mass))
            - Power(base_num[1], Abs(lib_mass - query_mass)),
         Power(base_num[2], Abs(lib_mass - query_mass)))

\* base_num ** mass_diff for mass_diff = abs(lib_mass - query_mass)
scaled_mass_sim(base_num, lib_mass, query_mass) ==
    Frac(Power(base_num[1], Abs(lib_mass - query_mass)),
         Power(base_num[2], Abs(lib_mass - query_mass)))

\* find_mass_similarity: the returned table, and the table that was handed
\* in as the call leaves it. df = matches.copy() is a table of its own, the
\* column is added to it; documents_library[lib_id] of a list that is too
\* short is an IndexError.
find_mass_similarity(matches, documents_library, query_mass, base_num) ==
    IF \E i \in DOMAIN matches : matches[i].lib_id >= Len(documents_library)
    THEN [ret |-> Raise("IndexError"), matches |-> matches]
    ELSE [ret |-> Ok([i \in DOMAIN matches |->
                         [lib_id |-> matches[i].lib_id,
                          s2v_score |-> matches[i].s2v_score,
                          mass_sim |-> scaled_mass_sim(
                                           base_num,
                                           documents_library[matches[i].lib_id + 1],
                                           query_mass)]]),
          matches |-> matches]

\* Matches tables: rows of library ids in any order, with a score column.
MatchesTables ==
    UNION {[1..n -> [lib_id : 0..(MaxLibrary - 1), s2v_score : 0..MaxPeaks]] :
              n \in 0..MaxLibrary}

\* The parent masses of the library documents.
DocumentsLibraries == UNION {[1..n -> 1..(MaxQueryMass + 1)] : n \in 1..MaxLibrary}

\* 0.8 is the default of base_num and what find_info_matches passes.
BaseNums == {<<4, 5>>, <<1, 2>>}

MlFunctionsInit ==
    /\ NoFiles
    /\ NoLibrary
    /\ \E matches \in MatchesTables, documents_library \in DocumentsLibraries,
          query_mass \in 1..MaxQueryMass, base_num \in BaseNums :
          agg = [op |-> "args",
                 matches |-> matches,
                 documents_library |-> documents_library,
                 query_mass |-> query_mass,
                 base_num |-> base_num]

FindMassSimilarity ==
    /\ UNCHANGED <<file_system, library, call>>
    /\ agg.op = "args"
    /\ agg' = [op |-> "find_mass_similarity",
               matches_before |-> agg.matches,
               matches |-> find_mass_similarity(agg.matches, agg.documents_library,
                                                agg.query_mass, agg.base_num).matches,
               documents_library |-> agg.documents_library,
               query_mass |-> agg.query_mass,
               base_num |-> agg.base_num,
               ret |-> find_mass_similarity(agg.matches, agg.documents_library,
                                            agg.query_mass, agg.base_num).ret]

SpecMlFunctions == MlFunctionsInit /\ [][FindMassSimilarity]_vars

MassDiff(i) ==
    Abs(agg.documents_library[agg.matches_before[i].lib_id + 1] - agg.query_mass)

not_removed(fs, file_name) == fs

\* os.remove
removed(fs, file_name) == [name \in DOMAIN fs \ {file_name} |-> fs[name]]

\* The call at a statement.
At(pc, status, dimension, k) ==
    [op |-> "create_all_library_files", pc |-> pc, status |-> status,
     dimension |-> dimension, k |-> k]

\* The statement at which the call has stopped with an exception.
Fails(status) == call' = At("failed", status, call.dimension, call.k)

\* The statement a call record is at.
Pc(c) == IF c = NoCall THEN "none" ELSE c.pc

\* No call is running.
NoCallRunning == Pc(call) \in {"none", "done", "failed"}

StepsInit ==
    /\ NoLibrary
    /\ agg = NoCall
    /\ \E list_of_spectra \in ListsOfSpectra : objects = <<Creator(list_of_spectra)>>
    /\ \E existing \in SUBSET {temporary_csv_file_name} :
          files = [name \in existing |-> ExistingFile]

\* Lines 147-154: the call begins with the asserts on the three outputs.
BeginCreateAllLibraryFiles ==
    /\ NoCallRunning
    /\ UNCHANGED <<file_system, library, agg>>
    /\ \E dimension \in EmbeddingDimensions :
          call' = IF \/ path_exists(files, objects[1].settings.new_sqlite_file_name.repr)
                     \/ path_exists(files, Ms2dsStoreName)
                     \/ path_exists(files, objects[1].settings.new_s2v_embeddings_file_name.repr)
                  THEN At("failed", "AssertionError", dimension, 0)
                  ELSE At("make_sqlfile_wrapper", "running", dimension, 0)

\* Lines 163-169: the sqlite file is made, or the call fails with or
\* without a file left.
MakeSqlfileWrapper ==
    /\ Pc(call) = "make_sqlfile_wrapper"
    /\ UNCHANGED <<objects, library, agg>>
    /\ \/ /\ files' = make_sqlfile_wrapper(files,
                          objects[1].settings.new_sqlite_file_name.repr,
                          objects[1].list_of_spectra)
          /\ call' = At("store_s2v_embeddings", "running", call.dimension, 0)
       \/ /\ \/ files' = files
             \/ files' = make_sqlfile_wrapper(files,
                             objects[1].settings.new_sqlite_file_name.repr, <<>>)
          /\ Fails("Error")

\* Line 171: store_s2v_embeddings; Word2Vec.load can fail after the assert.
StoreS2vEmbeddingsOfAll ==
    /\ Pc(call) = "store_s2v_embeddings"
    /\ UNCHANGED <<objects, library, agg>>
    /\ \/ /\ files' = store_s2v_embeddings(files, objects[1]).files
          /\ IF store_s2v_embeddings(files, objects[1]).ret.status = "ok"
             THEN call' = At("store_ms2ds_embeddings", "running", call.dimension, 0)
             ELSE Fails(store_s2v_embeddings(files, objects[1]).ret.status)
       \/ /\ ~path_exists(files, objects[1].settings.new_s2v_embeddings_file_name.repr)
          /\ files' = files
          /\ Fails("FileNotFoundError")

\* Lines 191-198: the asserts of store_ms2ds_embeddings, then the model is
\* loaded.
BeginStoreMs2dsEmbeddings ==
    /\ Pc(call) = "store_ms2ds_embeddings"
    /\ UNCHANGED <<file_system, library, agg>>
    /\ IF \/ path_exists(files, Ms2dsStoreName)
          \/ path_exists(files, temporary_csv_file_name)
       THEN Fails("AssertionError")
       ELSE \/ call' = At("to_csv", "running", call.dimension, 0)
            \/ Fails("FileNotFoundError")

\* Lines 200-215: one pass of the loop appends the line of a spectrum to
\* the temporary csv file, or the prediction fails.
AppendEmbeddingToCsv ==
    /\ Pc(call) = "to_csv"
    /\ call.k < Len(objects[1].list_of_spectra)
    /\ UNCHANGED <<objects, library, agg>>
    /\ \/ /\ files' = written(files, temporary_csv_file_name,
                              [kind |-> "csv",
                               lines |-> SubSeq(csv_lines(objects[1].list_of_spectra,
                                                          call.dimension),
                                                1, call.k + 1)])
          /\ call' = At("to_csv", "running", call.dimension, call.k + 1)
       \/ /\ files' = files
          /\ Fails("ValueError")

\* Lines 216-221: the csv file is read and the frame pickled; without a
\* spectrum there is no csv file to read.
ReadCsvToPickle ==
    /\ Pc(call) = "to_csv"
    /\ call.k = Len(objects[1].list_of_spectra)
    /\ UNCHANGED <<objects, library, agg>>
    /\ IF path_exists(files, temporary_csv_file_name)
       THEN /\ files' = written(files, Ms2dsStoreName,
                                read_csv(files[temporary_csv_file_name].lines,
                                         NrOfNames))
            /\ call' = At("os.remove", "running", call.dimension, call.k)
       ELSE /\ files' = files
            /\ Fails("FileNotFoundError")

\* Line 222: os.remove(temporary_csv_file_name), and the call returns.
RemoveTemporaryCsv ==
    /\ Pc(call) = "os.remove"
    /\ UNCHANGED <<objects, library, agg>>
    /\ files' = removed(files, temporary_csv_file_name)
    /\ call' = At("done", "ok", call.dimension, call.k)

\* Between calls the user removes a file by hand.
RemoveByHand ==
    /\ NoCallRunning
    /\ UNCHANGED <<objects, library, agg, call>>
    /\ \E file_name \in DOMAIN files : files' = removed(files, file_name)

StepsNext ==
    \/ BeginCreateAllLibraryFiles
    \/ MakeSqlfileWrapper
    \/ StoreS2vEmbeddingsOfAll
    \/ BeginStoreMs2dsEmbeddings
    \/ AppendEmbeddingToCsv
    \/ ReadCsvToPickle
    \/ RemoveTemporaryCsv
    \/ RemoveByHand

SpecCreationSteps == StepsInit /\ [][StepsNext]_vars

\* The file is made by the step.
Made(file_name) == file_name \in DOMAIN files' /\ file_name \notin DOMAIN files

\* An output of create_all_library_files exists.
SomeOutputExists ==
    {objects[1].settings.new_sqlite_file_name.repr,
     objects[1].settings.new_s2v_embeddings_file_name.repr,
     Ms2dsStoreName} \cap DOMAIN files # {}

(***************************************************************************)
(* C28.  create_all_library_files writes the sqlite file, then the s2v     *)
(* store, then the ms2ds store, the last by way of the temporary csv file, *)
(* which it writes only in store_ms2ds_embeddings and which is gone when   *)
(* the call has returned.  A step that fails leaves every file that was    *)
(* written before it, and a call made while an output is left fails at     *)
(* the assert on it with no file changed, as does store_ms2ds_embeddings   *)
(* while the temporary csv file is left; that is so until the files are    *)
(* removed by hand.                                                        *)
(***************************************************************************)
C28_OutputsInOrderAndLeftAfterFailure ==
    [][/\ Made(objects[1].settings.new_s2v_embeddings_file_name.repr)
             => path_exists(files, objects[1].settings.new_sqlite_file_name.repr)
       /\ Made(Ms2dsStoreName)
             => /\ path_exists(files, objects[1].settings.new_sqlite_file_name.repr)
                /\ path_exists(files, objects[1].settings.new_s2v_embeddings_file_name.repr)
                /\ path_exists(files, temporary_csv_file_name)
       /\ (/\ temporary_csv_file_name \in DOMAIN files'
           /\ temporary_csv_file_name \in DOMAIN files
                  => files'[temporary_csv_file_name] # files[temporary_csv_file_name])
             => Pc(call) = "to_csv"
       /\ (~NoCallRunning /\ Pc(call') = "done")
             => /\ temporary_csv_file_name \notin DOMAIN files'
                /\ path_exists(files', objects[1].settings.new_sqlite_file_name.repr)
                /\ path_exists(files', objects[1].settings.new_s2v_embeddings_file_name.repr)
                /\ path_exists(files', Ms2dsStoreName)
       /\ (~NoCallRunning /\ Pc(call') = "failed")
             => \A file_name \in DOMAIN files :
                    /\ file_name \in DOMAIN files'
                    /\ files'[file_name] = files[file_name]
       /\ (NoCallRunning /\ call' # call /\ SomeOutputExists)
             => /\ Pc(call') = "failed"
                /\ call'.status = "AssertionError"
                /\ files' = files
       /\ (/\ Pc(call) = "store_ms2ds_embeddings"
           /\ path_exists(files, temporary_csv_file_name))
             => /\ Pc(call') = "failed"
                /\ call'.status = "AssertionError"
                /\ files' = files]_vars

\* A call has failed at the assert while the sqlite file, the s2v store and
\* the temporary csv file of an earlier call that failed in the embedding
\* loop are still there.
C28_Witness ==
    /\ Pc(call) = "failed"
    /\ call.status = "AssertionError"
    /\ path_exists(files, objects[1].settings.new_sqlite_file_name.repr)
    /\ path_exists(files, objects[1].settings.new_s2v_embeddings_file_name.repr)
    /\ path_exists(files, temporary_csv_file_name)
    /\ files[temporary_csv_file_name] # ExistingFile
    /\ ~path_exists(files, Ms2dsStoreName)

(***************************************************************************)
(* benchmarking.collect_test_data_results.get_cosines_score_results.  A    *)
(* library spectrum has its position in lib_spectra as id; scores[t][id]   *)
(* is what CosineGreedy gives for the t-th test spectrum and that library  *)
(* spectrum: <<cosine score, number of matched peaks>>.                    *)
(***************************************************************************)
\* select_spectra_within_mass_range
select_spectra_within_mass_range(spectra, lower_bound, upper_bound) ==
    SelectSeq(spectra, LAMBDA spectrum : /\ upper_bound >= spectrum.precursor_mz
                                         /\ spectrum.precursor_mz >= lower_bound)

\* calculate_scores(selected_lib_spectra, [test_spectrum], CosineGreedy)
\* .scores_by_query(test_spectrum): one (spectrum, score) pair per selected
\* library spectrum, in their order.
scores_by_query(selected_lib_spectra, scores_of_test_spectrum) ==
    [j \in DOMAIN selected_lib_spectra |->
        <<selected_lib_spectra[j], scores_of_test_spectrum[selected_lib_spectra[j].id]>>]

\* [scores_tuple[1].item()[0] for scores_tuple in scores_list
\*  if scores_tuple[1].item()[1] >= minimum_matched_peaks]
cosine_scores(scores_list, minimum_matched_peaks) ==
    LET kept == SelectSeq(scores_list,
                          LAMBDA scores_tuple : scores_tuple[2][2] >= minimum_matched_peaks)
    IN [j \in DOMAIN kept |-> kept[j][2][1]]

\* max(cosine_scores) and cosine_scores.index(highest_cosine_score): the
\* first position of the highest score.
index_of_highest(scores) ==
    CHOOSE j \in DOMAIN scores :
        /\ \A other \in DOMAIN scores : scores[other] <= scores[j]
        /\ \A earlier \in 1..(j - 1) : scores[earlier] < scores[j]

\* calculate_single_tanimoto_score of the structures of two spectra.
calculate_single_tanimoto_score(inchikey, other_inchikey) ==
    IF inchikey = other_inchikey THEN MaxTanimoto ELSE 1

\* Lines 178-185: the tuple appended for a test spectrum of which some
\* library spectrum has enough matched peaks.  The position found in
\* cosine_scores is used as a position in scores_list.
best_match(test_spectrum, scores_list, scores) ==
    LET highest_scoring_spectrum == scores_list[index_of_highest(scores)][1]
    IN <<scores[index_of_highest(scores)],
         calculate_single_tanimoto_score(test_spectrum.inchikey,
                                         highest_scoring_spectrum.inchikey),
         highest_scoring_spectrum.inchikey = test_spectrum.inchikey>>

\* Lines 173-189, from scores_list on.
best_match_or_none(test_spectrum, scores_list, minimum_matched_peaks) ==
    IF scores_list = <<>> THEN None
    ELSE IF cosine_scores(scores_list, minimum_matched_peaks) = <<>> THEN None
    ELSE best_match(test_spectrum, scores_list,
                    cosine_scores(scores_list, minimum_matched_peaks))

get_cosines_score_results(lib_spectra, test_spectra, scores, mass_tolerance, minimum_matched_peaks) ==
    [t \in DOMAIN test_spectra |->
        best_match_or_none(
            test_spectra[t],
            scores_by_query(
                select_spectra_within_mass_range(
                    lib_spectra,
                    test_spectra[t].precursor_mz - mass_tolerance,
                    test_spectra[t].precursor_mz + mass_tolerance),
                scores[t]),
            minimum_matched_peaks)]

\* What CosineGreedy can give for a pair: no matched peak and score 0, or
\* one matched peak and a score above 0.
PairScores == {<<0, 0>>} \cup {<<score, 1>> : score \in 1..MaxScore}

BenchmarkInit ==
    /\ NoFiles
    /\ NoLibrary
    /\ \E n \in 0..MaxLibrary, m \in 1..MaxBatch :
          \E precursor_mzs \in [1..n -> 1..MaxQueryMass], inchikeys \in [1..n -> Inchikeys],
             test_spectra \in [1..m -> [precursor_mz : 1..MaxQueryMass, inchikey : {"A"}]],
             scores \in [1..m -> [1..n -> PairScores]],
             mass_tolerance \in 0..MaxTolerance :
             agg = [op |-> "args",
                    lib_spectra |-> [i \in 1..n |-> [id |-> i,
                                                     precursor_mz |-> precursor_mzs[i],
                                                     inchikey |-> inchikeys[i]]],
                    test_spectra |-> test_spectra,
                    scores |-> scores,
                    mass_tolerance |-> mass_tolerance,
                    minimum_matched_peaks |-> 1]

GetCosinesScoreResults ==
    /\ UNCHANGED <<file_system, library, call>>
    /\ agg.op = "args"
    /\ agg' = [op |-> "get_cosines_score_results",
               lib_spectra |-> agg.lib_spectra,
               test_spectra |-> agg.test_spectra,
               scores |-> agg.scores,
               mass_tolerance |-> agg.mass_tolerance,
               minimum_matched_peaks |-> agg.minimum_matched_peaks,
               ret |-> get_cosines_score_results(
                           agg.lib_spectra, agg.test_spectra, agg.scores,
                           agg.mass_tolerance, agg.minimum_matched_peaks)]

SpecBenchmark == BenchmarkInit /\ [][GetCosinesScoreResults]_vars

\* The library spectra in the mass window of the t-th test spectrum that
\* have at least minimum_matched_peaks matched peaks with it.
PassingTheFilter(t) ==
    {i \in DOMAIN agg.lib_spectra :
        /\ agg.lib_spectra[i].precursor_mz >= agg.test_spectra[t].precursor_mz - agg.mass_tolerance
        /\ agg.lib_spectra[i].precursor_mz <= agg.test_spectra[t].precursor_mz + agg.mass_tolerance
        /\ agg.scores[t][i][2] >= agg.minimum_matched_peaks}

\* C30: get_cosines_score_results returns one entry per test spectrum in
\* input order; when some library spectrum in the mass window has at least
\* minimum_matched_peaks matched peaks, the entry holds the highest cosine
\* score among the spectra passing that filter and the tanimoto score and
\* exact-match flag of a library spectrum that passed the filter with that
\* score; otherwise the entry is None.
C30_BestMatchIsOfHighestScoringSpectrum ==
    agg.op = "get_cosines_score_results" =>
        /\ Len(agg.ret) = Len(agg.test_spectra)
        /\ \A t \in DOMAIN agg.test_spectra :
              IF PassingTheFilter(t) = {}
              THEN agg.ret[t] = None
              ELSE /\ agg.ret[t] # None
                   /\ \A i \in PassingTheFilter(t) :
                         agg.scores[t][i][1] <= agg.ret[t][1]
                   /\ \E i \in PassingTheFilter(t) :
                         /\ agg.scores[t][i][1] = agg.ret[t][1]
                         /\ agg.ret[t][2] =
                               calculate_single_tanimoto_score(
                                   agg.test_spectra[t].inchikey, agg.lib_spectra[i].inchikey)
                         /\ agg.ret[t][3] =
                               (agg.lib_spectra[i].inchikey = agg.test_spectra[t].inchikey)

====
